---- MODULE Spec2Model ----
(***************************************************************************)
(* State-machine model of the zeroclaw security core.                      *)
(*                                                                         *)
(*   KeyStore         src/src/security/key_rotation.rs                     *)
(*   CredentialVault  src/src/security/credential_vault.rs                 *)
(*   RateLimiter, AccessPolicy, AccessControlManager                       *)
(*                    src/src/security/access_control.rs                   *)
(*   CommandValidator src/src/tools/command_validator.rs                   *)
(*   JudgmentCache, JudgmentPolicy, OllamaClient::judge_input              *)
(*                    src/src/tools/llm_judge.rs                           *)
(*   SandboxMonitor   src/src/tools/sandbox_monitor.rs                     *)
(*   TokenStore       src/src/gateway/session_token.rs                     *)
(*   ConfigValidator  src/src/security/security_logging.rs                 *)
(*                                                                         *)
(* Each component has a specification of its own (SpecKeyStore, SpecVault, *)
(* ...): its operations are the actions, the other components stay as      *)
(* constructed.  Timestamps that are written from the clock and never read *)
(* back by the code (created_at of a key, timestamp of an event) are left  *)
(* out of the records.                                                     *)
(*                                                                         *)
(* Every public operation is one action.  The variable `last` records the  *)
(* most recent call (its name, arguments and return value) so that the     *)
(* properties can speak about what a call returned.                        *)
(***************************************************************************)
EXTENDS Integers, Sequences, FiniteSets, TLC

VARIABLES
    current_version,   \* KeyStore.current_version : u32
    keys,              \* KeyStore.keys : HashMap<u32, KeyVersion>
    rotation_history,  \* KeyStore.rotation_history : Vec<KeyRotationEvent>
    vault_key,         \* CredentialVault.key : Key<Aes256Gcm>
    vault_version,     \* CredentialVault.version : u32
    credentials,       \* CredentialVault.credentials : HashMap<String, EncryptedValue>
    encLog,            \* every encrypt call so far: its plaintext and the value returned
    stored,            \* per id, the plaintext of the latest store not yet deleted
    now,               \* the clock Utc::now() reads, in seconds
    limiter,           \* a RateLimiter
    policies,          \* AccessControlManager.policies : HashMap<String, AccessPolicy>
    calls,             \* per credential, the AccessPolicy::check_access calls on its policy
    whitelist,         \* CommandValidator.whitelist : HashSet<String>
    cache,             \* JudgmentCache.cache : HashMap<String, CachedJudgment>
    cache_max_size,    \* JudgmentCache.max_size : usize
    storeLog,          \* the fingerprints stored in the cache since new / clear, in order
    judgment_policy,   \* a JudgmentPolicy: its four action fields
    violations,        \* SandboxMonitor.violations : VecDeque<SandboxViolation>
    max_violations,    \* SandboxMonitor.max_violations : usize
    recorded,          \* the violations recorded since new / clear_violations, in order
    tokens,            \* TokenStore.tokens : HashMap<String, SessionToken>
    revoked_tokens,    \* TokenStore.revoked_tokens : HashSet<String>
    revoke_called,     \* the token ids revoke has been called with so far
    buffers,           \* the heap allocations that back SensitiveData values
    entries,           \* CommandAuditLog.entries : Vec<CommandAuditEntry>
    log_file,          \* the text of the file at CommandAuditLog.log_path
    entries_cleared,   \* whether CommandAuditLog::clear has been called
    last               \* the most recent call and what it returned

ksVars        == <<current_version, keys, rotation_history>>
vaultVars     == <<vault_key, vault_version, credentials, encLog, stored>>
limiterVars   == <<limiter>>
accessVars    == <<policies, calls>>
validatorVars == <<whitelist>>
cacheVars     == <<cache, cache_max_size, storeLog>>
judgeVars     == <<judgment_policy>>
monitorVars   == <<violations, max_violations, recorded>>
tokenVars     == <<tokens, revoked_tokens, revoke_called>>
memoryVars    == <<buffers>>
auditVars     == <<entries, log_file, entries_cleared>>
\* The components of the tools and gateway modules added to the security core.
laterVars     == <<judgeVars, monitorVars, tokenVars, memoryVars, auditVars>>
vars == <<ksVars, vaultVars, now, limiterVars, accessVars, validatorVars, cacheVars,
          laterVars, last>>

\* What an operation of one component leaves alone: the other components
\* and the clock.
NotKeyStore  == <<vaultVars, now, limiterVars, accessVars, validatorVars, cacheVars,
                 laterVars>>
NotVault     == <<ksVars, now, limiterVars, accessVars, validatorVars, cacheVars,
                 laterVars>>
NotLimiter   == <<ksVars, vaultVars, now, accessVars, validatorVars, cacheVars,
                 laterVars>>
NotAccess    == <<ksVars, vaultVars, now, limiterVars, validatorVars, cacheVars,
                 laterVars>>
NotValidator == <<ksVars, vaultVars, now, limiterVars, accessVars, cacheVars,
                 laterVars>>
NotCache     == <<ksVars, vaultVars, now, limiterVars, accessVars, validatorVars,
                 laterVars>>
NotClock     == <<ksVars, vaultVars, limiterVars, accessVars, validatorVars, cacheVars,
                 laterVars>>
coreVars     == <<ksVars, vaultVars, limiterVars, accessVars, validatorVars, cacheVars>>
NotJudge     == <<coreVars, now, monitorVars, tokenVars, memoryVars, auditVars>>
NotMonitor   == <<coreVars, now, judgeVars, tokenVars, memoryVars, auditVars>>
NotTokens    == <<coreVars, now, judgeVars, monitorVars, memoryVars, auditVars>>
NotMemory    == <<coreVars, now, judgeVars, monitorVars, tokenVars, auditVars>>
NotAudit     == <<coreVars, now, judgeVars, monitorVars, tokenVars, memoryVars>>

----------------------------------------------------------------------------
(* Bounds of the model *)

\* rotate_key is explored while current_version is below MaxVersion.
MaxVersion == 3
\* The 32-byte random keys are drawn from 1..NumKeyMaterials.
NumKeyMaterials == 2
\* log_rotation is explored while the history is shorter than MaxHistory.
MaxHistory == 2
\* The 12-byte random nonces are drawn from 1..NumNonces.
NumNonces == 2
\* encrypt (alone or inside store) is explored MaxEncrypts times.
MaxEncrypts == 2
\* The clock is explored up to MaxTicks half-minutes.
MaxTicks == 4
\* max_requests of a limiter or a policy is drawn from 0..MaxRequests.
MaxRequests == 3

\* allow_user / allow_tool are explored while the list is shorter than MaxAllowed.
MaxAllowed == 1
\* AccessPolicy::check_access is explored while the access log is shorter than MaxLog.
MaxLog == 2

\* add_whitelist is explored while the allow-list holds fewer than MaxWhitelist names.
MaxWhitelist == 2

\* JudgmentCache::new(max_size) is explored for max_size in 0..MaxCacheSize.
MaxCacheSize == 2
\* store is explored while fewer than MaxStores stores followed new() or clear().
MaxStores == 3
\* At most MaxBuffers SensitiveData values (clones included) are created.
MaxBuffers == 3
\* log_command is explored while the log file stays within MaxFileLen tokens.
MaxFileLen == 10
\* Beside the cache the clock is explored up to MaxCacheTicks half-minutes.
MaxCacheTicks == 2

\* SandboxMonitor::new(max_violations) is explored for 0..MaxViolations.
MaxViolations == 2
\* Violations are recorded while fewer than MaxRecorded followed new() or a clear.
MaxRecorded == 3

\* RateLimiter::new: window_size = Duration::minutes(1), in seconds.
WindowSize == 60
\* The clock moves on by half a minute or a minute between two calls, or not
\* at all (two calls within the same instant).
TickSteps == {30, 60}

KeyMaterial == 1..NumKeyMaterials
Nonces      == 1..NumNonces
Versions    == 1..MaxVersion
KeepCounts  == 0..MaxVersion
\* The (old_version, new_version, migrated) triples log_rotation is called with.
LogInputs   == {<<1, 2, 0>>, <<2, 3, 7>>}
Plaintexts  == {"my_secret", "other"}
Ids         == {"api_key_1", "key1"}
None        == "none"
CredentialIds == {"cred1", "cred2"}
Users         == {"alice", "bob"}
Tools         == {"shell", "http"}
AccessActions == {"Read", "Decrypt", "Rotate"}
\* max_accesses_per_minute of the policies created.
PolicyLimits  == {0, 1, 2}
Fingerprints  == {"hash0", "hash1", "hash2"}
Judgments     == {[category |-> "Safe", confidence |-> 90],
                  [category |-> "Dangerous", confidence |-> 95]}
\* Time-to-live values in seconds: none, one minute.
TTLs          == {0, 60}
\* Commands and paths given to the detectors of the sandbox monitor.
SandboxInputs == {<<"s", "u", "d", "o", " ", "l", "s">>, <<"s", "u", " ", "r", "o", "o", "t">>, <<"v", "i", "s", "u", "d", "o">>, <<"s", "u", "m">>, <<"s", "u">>,
                  <<"l", "s", " ", ".", ".", "/", "e", "t", "c">>, <<"a", ".", "b">>, <<"~", "/", "x">>}
\* Details of the violations recorded directly.
ViolationDetails == {<<"Violation ", "0">>, <<"Violation ", "1">>, <<"Violation ", "2">>}
\* The plaintexts put into SensitiveData values, as bytes.
SecretBytes == {<<115, 51>>, <<112>>}
\* The entries given to CommandAuditLog::log_command; timestamp, exit_code,
\* output_truncated and sandbox_used are carried along unchanged and left out.
AuditEntries == {[command |-> "ls -la", user |-> "user1"],
                 [command |-> "cmd1", user |-> "user2"],
                 [command |-> "cmd2", user |-> "user2"]}
\* The users get_entries_for_user is asked about.
AuditUsers == {"user1", "user2", "user3"}
\* How many tokens of the line reached the file when writeln! failed: none,
\* a part of the JSON text, the JSON text without its newline.
WrittenBeforeError == {0, 2, 4}
\* How opening and writing the log file can end.
IoOutcomes ==
    {[kind |-> "ok"], [kind |-> "open_error"]}
    \cup {[kind |-> "write_error", written |-> k] : k \in WrittenBeforeError}
\* How a scope that owns a SensitiveData value is left.
ExitPaths == {"return", "error", "unwind"}
TokenIds    == {"tok1", "tok2"}
\* expires_at of the tokens stored, in seconds of the clock.
ExpiryTimes == {30, 90}
JudgmentCategories == {"Safe", "Suspicious", "Dangerous", "Unknown"}
PolicyActions      == {"Allow", "RequireConfirmation", "Deny"}

----------------------------------------------------------------------------
(* Helpers *)

Range(s) == {s[i] : i \in DOMAIN s}

Reverse(s) == [i \in 1..Len(s) |-> s[Len(s) + 1 - i]]

Min(a, b) == IF a <= b THEN a ELSE b

\* Result<T, E>
Ok(v)  == [ok |-> TRUE, val |-> v]
Err(e) == [ok |-> FALSE, err |-> e]
Unit   == "()"
\* Option: Some(v) and None, for the calls whose value is compared.
Some(v) == [some |-> TRUE, val |-> v]
Nothing == [some |-> FALSE]

\* The orders in which a HashMap holding the keys S may iterate them: std's
\* HashMap is seeded per process (RandomState), so any order can come out.
IterationOrders(S) ==
    {f \in [1..Cardinality(S) -> S] : \A i, j \in 1..Cardinality(S) : i # j => f[i] # f[j]}

----------------------------------------------------------------------------
(* KeyStore *)

KeyVersion(v, km, st) == [version |-> v, key_material |-> km, status |-> st]

\* KeyStore::new : the key map after construction.
KeyStore_new_keys(km) == (1 :> KeyVersion(1, km, "Active"))

\* rotate_key: new_version = old_version + 1
next_version_same(old) == old
next_version(old) == old + 1

\* rotate_key: if let Some(old_key) = keys.get_mut(&old_version) { status = Rotating }
mark_rotating_skip(ks, old) == ks
mark_rotating_retired(ks, old) ==
    [v \in DOMAIN ks |-> IF v = old THEN [ks[v] EXCEPT !.status = "Retired"] ELSE ks[v]]
mark_rotating(ks, old) ==
    [v \in DOMAIN ks |-> IF v = old THEN [ks[v] EXCEPT !.status = "Rotating"] ELSE ks[v]]

\* HashMap::insert: adds the entry, replacing one with the same key.
map_insert(m, k, val) == [x \in DOMAIN m \cup {k} |-> IF x = k THEN val ELSE m[x]]

\* rotate_key: the key map it leaves.
rotate_key_keys(ks, old, km) ==
    map_insert(mark_rotating(ks, old), next_version(old),
               KeyVersion(next_version(old), km, "Active"))

\* get_current_key / get_key_by_version: key_material is always the 32 bytes
\* of a [u8; 32], so the length conversion never fails.
get_key_by_version(ks, version) ==
    IF version \in DOMAIN ks THEN Ok(ks[version].key_material)
    ELSE Err("Key version not found")

get_current_key(ks, cur) ==
    IF cur \in DOMAIN ks THEN Ok(ks[cur].key_material)
    ELSE Err("Current key not found")

\* retire_old_keys: keys().copied().collect().into_iter().rev().take(keep_versions)
versions_to_keep(order, keep_versions) ==
    SubSeq(Reverse(order), 1, Min(keep_versions, Len(order)))

\* retire_old_keys: keys.retain(|version, _| versions_to_keep.contains(version))
retain_versions(ks, keep) == [v \in {x \in DOMAIN ks : x \in Range(keep)} |-> ks[v]]

KeyRotationEvent_pending(old, new, migrated) ==
    [old_version |-> old, new_version |-> new,
     credentials_migrated |-> migrated, status |-> "pending"]
KeyRotationEvent(old, new, migrated) ==
    [old_version |-> old, new_version |-> new,
     credentials_migrated |-> migrated, status |-> "completed"]

\* old_version + 1 leaves u32 only after 2^32 - 1 rotations, which the bound
\* on current_version keeps out of the explored states.
rotate_key ==
    /\ current_version < MaxVersion
    /\ \E km \in KeyMaterial :
         keys' = rotate_key_keys(keys, current_version, km)
    /\ current_version' = next_version(current_version)
    /\ last' = [op |-> "rotate_key", ret |-> Ok(next_version(current_version))]
    /\ UNCHANGED <<rotation_history, NotKeyStore>>

retire_old_keys ==
    \E keep_versions \in KeepCounts, order \in IterationOrders(DOMAIN keys) :
      /\ keys' = retain_versions(keys, versions_to_keep(order, keep_versions))
      /\ last' = [op |-> "retire_old_keys", keep_versions |-> keep_versions]
      /\ UNCHANGED <<current_version, rotation_history, NotKeyStore>>

log_rotation ==
    /\ Len(rotation_history) < MaxHistory
    /\ \E in \in LogInputs :
         /\ rotation_history' = Append(rotation_history, KeyRotationEvent(in[1], in[2], in[3]))
         /\ last' = [op |-> "log_rotation", old_version |-> in[1],
                     new_version |-> in[2], migrated |-> in[3]]
    /\ UNCHANGED <<current_version, keys, NotKeyStore>>

call_get_current_key ==
    /\ last' = [op |-> "get_current_key", ret |-> get_current_key(keys, current_version)]
    /\ UNCHANGED <<ksVars, NotKeyStore>>

call_get_key_by_version ==
    /\ \E version \in Versions :
         last' = [op |-> "get_key_by_version", version |-> version,
                  ret |-> get_key_by_version(keys, version)]
    /\ UNCHANGED <<ksVars, NotKeyStore>>

----------------------------------------------------------------------------
(* CredentialVault *)

EncryptedValue(ct, iv, version) == [ciphertext |-> ct, iv |-> iv, version |-> version]

\* Aes256Gcm::encrypt(nonce, plaintext) under `key`: the ciphertext with its
\* tag, as an ideal AEAD box that names what it was sealed with.
aead_encrypt(key, nonce, plaintext) ==
    [sealed_key |-> key, sealed_nonce |-> nonce, sealed_plaintext |-> plaintext]

\* Aes256Gcm::decrypt(nonce, ciphertext) under `key`: the plaintext when key
\* and nonce are the ones the box was sealed with, an authentication error
\* otherwise.
aead_decrypt(key, nonce, ct) ==
    IF ct.sealed_key = key /\ ct.sealed_nonce = nonce
    THEN Ok(ct.sealed_plaintext)
    ELSE Err("aead::Error")

\* CredentialVault::encrypt, with the iv its rng drew.
encrypt(key, version, iv, plaintext) ==
    Ok(EncryptedValue(aead_encrypt(key, iv, plaintext), iv, version))

\* CredentialVault::decrypt
decrypt_first_nonce(key, encrypted) ==
    LET r == aead_decrypt(key, 1, encrypted.ciphertext)
    IN  IF r.ok THEN Ok(r.val) ELSE Err("Decryption failed")
decrypt(key, encrypted) ==
    LET r == aead_decrypt(key, encrypted.iv, encrypted.ciphertext)
    IN  IF r.ok THEN Ok(r.val) ELSE Err("Decryption failed")

\* store: self.credentials.insert(id, encrypted)
store_credentials_keep_old(creds, id, encrypted) ==
    IF id \in DOMAIN creds THEN creds ELSE map_insert(creds, id, encrypted)
store_credentials(creds, id, encrypted) == map_insert(creds, id, encrypted)

\* CredentialVault::retrieve
retrieve(creds, key, id) ==
    IF id \notin DOMAIN creds THEN Err("Credential not found")
    ELSE decrypt(key, creds[id])

\* delete: self.credentials.remove(id)
delete_credentials_clear(creds, id) == <<>>
delete_credentials(creds, id) == [x \in DOMAIN creds \ {id} |-> creds[x]]

\* CredentialVault::delete: its result.
delete_result(creds, id) ==
    IF id \in DOMAIN creds THEN Ok(Unit) ELSE Err("Credential not found")

\* The values a caller can hand to decrypt: those encrypt returned, and those
\* with the iv field (which is public) overwritten.
Returned == {encLog[i].out : i \in DOMAIN encLog}
DecryptInputs == Returned \cup {[e EXCEPT !.iv = n] : e \in Returned, n \in Nonces}

call_encrypt ==
    /\ Len(encLog) < MaxEncrypts
    /\ \E plaintext \in Plaintexts, iv \in Nonces :
         LET r == encrypt(vault_key, vault_version, iv, plaintext)
         IN  /\ encLog' = Append(encLog, [plaintext |-> plaintext, out |-> r.val])
             /\ last' = [op |-> "encrypt", plaintext |-> plaintext, ret |-> r]
    /\ UNCHANGED <<vault_key, vault_version, credentials, stored, NotVault>>

call_decrypt ==
    /\ \E encrypted \in DecryptInputs :
         last' = [op |-> "decrypt", encrypted |-> encrypted,
                  ret |-> decrypt(vault_key, encrypted)]
    /\ UNCHANGED <<vaultVars, NotVault>>

store ==
    /\ Len(encLog) < MaxEncrypts
    /\ \E id \in Ids, plaintext \in Plaintexts, iv \in Nonces :
         LET r == encrypt(vault_key, vault_version, iv, plaintext)
         IN  /\ encLog' = Append(encLog, [plaintext |-> plaintext, out |-> r.val])
             /\ credentials' = store_credentials(credentials, id, r.val)
             /\ stored' = [stored EXCEPT ![id] = plaintext]
             /\ last' = [op |-> "store", id |-> id, plaintext |-> plaintext,
                         ret |-> Ok(Unit)]
    /\ UNCHANGED <<vault_key, vault_version, NotVault>>

call_retrieve ==
    /\ \E id \in Ids :
         last' = [op |-> "retrieve", id |-> id,
                  ret |-> retrieve(credentials, vault_key, id)]
    /\ UNCHANGED <<vaultVars, NotVault>>

delete ==
    /\ \E id \in Ids :
         /\ credentials' = delete_credentials(credentials, id)
         /\ stored' = [stored EXCEPT ![id] = None]
         /\ last' = [op |-> "delete", id |-> id,
                     ret |-> delete_result(credentials, id)]
    /\ UNCHANGED <<vault_key, vault_version, encLog, NotVault>>

----------------------------------------------------------------------------
(* The clock *)

\* Time passes between two calls.
Tick ==
    /\ \E d \in TickSteps :
         /\ now + d <= MaxTicks * 30
         /\ now' = now + d
    /\ last' = [op |-> "tick"]
    /\ UNCHANGED NotClock

----------------------------------------------------------------------------
(* RateLimiter *)

RateLimiter_new(max_requests_per_minute) ==
    [window_size |-> WindowSize, max_requests |-> max_requests_per_minute,
     requests |-> <<>>]

\* check_limit: if oldest < cutoff { pop_front } else { break }
is_expired_or_at_cutoff(oldest, cutoff) == oldest <= cutoff
is_expired(oldest, cutoff) == oldest < cutoff

\* check_limit: while let Some(&oldest) = requests.front() { ... }
RECURSIVE prune_loop(_, _)
prune_loop(requests, cutoff) ==
    IF requests # <<>> /\ is_expired(Head(requests), cutoff)
    THEN prune_loop(Tail(requests), cutoff)
    ELSE requests

\* check_limit: the queue after "Remove old requests outside window".
prune_none(requests, cutoff) == requests
prune(requests, cutoff) == prune_loop(requests, cutoff)

\* check_limit: requests.len() >= max_requests
limit_reached_above(len, max_requests) == len > max_requests
limit_reached(len, max_requests) == len >= max_requests

\* RateLimiter::check_limit at clock reading t: its result and the limiter it leaves.
check_limit_push_front(l, t) ==
    LET cutoff == t - l.window_size
        kept   == prune(l.requests, cutoff)
    IN  IF limit_reached(Len(kept), l.max_requests)
        THEN [ret |-> Err("Rate limit exceeded"),
              limiter |-> [l EXCEPT !.requests = kept]]
        ELSE [ret |-> Ok(Unit),
              limiter |-> [l EXCEPT !.requests = <<t>> \o kept]]
check_limit(l, t) ==
    LET cutoff == t - l.window_size
        kept   == prune(l.requests, cutoff)
    IN  IF limit_reached(Len(kept), l.max_requests)
        THEN [ret |-> Err("Rate limit exceeded"),
              limiter |-> [l EXCEPT !.requests = kept]]
        ELSE [ret |-> Ok(Unit),
              limiter |-> [l EXCEPT !.requests = Append(kept, t)]]

call_check_limit ==
    /\ LET r == check_limit(limiter, now)
       IN  /\ limiter' = r.limiter
           /\ last' = [op |-> "check_limit", at |-> now, ret |-> r.ret]
    /\ UNCHANGED NotLimiter

----------------------------------------------------------------------------
(* AccessPolicy and AccessControlManager *)

AccessEvent(credential_id, action, user, status) ==
    [credential_id |-> credential_id, action |-> action, user |-> user,
     status |-> status]

AccessPolicy_new(credential_id, max_accesses_per_minute) ==
    [credential_id |-> credential_id, allowed_tools |-> <<>>, allowed_users |-> <<>>,
     rate_limiter |-> RateLimiter_new(max_accesses_per_minute), access_log |-> <<>>]

\* check_access: !(!allowed_users.is_empty() && !allowed_users.contains(user))
user_allowed(p, user) == p.allowed_users = <<>> \/ user \in Range(p.allowed_users)

\* check_access: !(!allowed_tools.is_empty() && !allowed_tools.contains(tool))
tool_allowed(p, tool) == p.allowed_tools = <<>> \/ tool \in Range(p.allowed_tools)

\* check_access: self.access_log.push(event)
push_event_front(log, event) == <<event>> \o log
push_event(log, event) == Append(log, event)

\* The policy with the event of this call logged.
logged(p, user, action, status) ==
    [p EXCEPT !.access_log =
        push_event(p.access_log, AccessEvent(p.credential_id, action, user, status))]

\* AccessPolicy::check_access at clock reading t: its result and the policy it leaves.
policy_check_access_limit_first(p, user, tool, action, t) ==
    LET r == check_limit(p.rate_limiter, t)
        q == [p EXCEPT !.rate_limiter = r.limiter]
    IN  IF ~user_allowed(p, user)
        THEN [ret |-> Err("User not allowed"), policy |-> logged(q, user, action, "Denied")]
        ELSE IF ~tool_allowed(p, tool)
        THEN [ret |-> Err("Tool not allowed"), policy |-> logged(q, user, action, "Denied")]
        ELSE IF r.ret.ok
             THEN [ret |-> Ok(Unit), policy |-> logged(q, user, action, "Allowed")]
             ELSE [ret |-> Err("Rate limit exceeded"),
                   policy |-> logged(q, user, action, "RateLimited")]
policy_check_access_tool_first(p, user, tool, action, t) ==
    IF ~tool_allowed(p, tool)
    THEN [ret |-> Err("Tool not allowed"), policy |-> logged(p, user, action, "Denied")]
    ELSE IF ~user_allowed(p, user)
    THEN [ret |-> Err("User not allowed"), policy |-> logged(p, user, action, "Denied")]
    ELSE LET r == check_limit(p.rate_limiter, t)
             q == [p EXCEPT !.rate_limiter = r.limiter]
         IN  IF r.ret.ok
             THEN [ret |-> Ok(Unit), policy |-> logged(q, user, action, "Allowed")]
             ELSE [ret |-> Err("Rate limit exceeded"),
                   policy |-> logged(q, user, action, "RateLimited")]
policy_check_access(p, user, tool, action, t) ==
    IF ~user_allowed(p, user)
    THEN [ret |-> Err("User not allowed"), policy |-> logged(p, user, action, "Denied")]
    ELSE IF ~tool_allowed(p, tool)
    THEN [ret |-> Err("Tool not allowed"), policy |-> logged(p, user, action, "Denied")]
    ELSE LET r == check_limit(p.rate_limiter, t)
             q == [p EXCEPT !.rate_limiter = r.limiter]
         IN  IF r.ret.ok
             THEN [ret |-> Ok(Unit), policy |-> logged(q, user, action, "Allowed")]
             ELSE [ret |-> Err("Rate limit exceeded"),
                   policy |-> logged(q, user, action, "RateLimited")]

\* AccessControlManager::check_access: its result and the policy map it leaves.
manager_check_access_default(ps, credential_id, user, tool, action, t) ==
    LET qs == IF credential_id \in DOMAIN ps THEN ps
              ELSE map_insert(ps, credential_id, AccessPolicy_new(credential_id, 1))
        r  == policy_check_access(qs[credential_id], user, tool, action, t)
    IN  [ret |-> r.ret, policies |-> [qs EXCEPT ![credential_id] = r.policy]]
manager_check_access(ps, credential_id, user, tool, action, t) ==
    IF credential_id \notin DOMAIN ps
    THEN [ret |-> Err("Policy not found"), policies |-> ps]
    ELSE LET r == policy_check_access(ps[credential_id], user, tool, action, t)
         IN  [ret |-> r.ret, policies |-> [ps EXCEPT ![credential_id] = r.policy]]

\* AccessControlManager::create_policy, for a credential of creds.
create_policy(creds, limits) ==
    /\ \E credential_id \in creds, max \in limits :
         /\ policies' = map_insert(policies, credential_id,
                                   AccessPolicy_new(credential_id, max))
         /\ calls' = map_insert(calls, credential_id, 0)
         /\ last' = [op |-> "create_policy", credential_id |-> credential_id,
                     max_accesses_per_minute |-> max]
    /\ UNCHANGED NotAccess

\* get_policy_mut(credential_id) then AccessPolicy::allow_user
allow_user(creds, users) ==
    /\ \E credential_id \in creds \cap DOMAIN policies, user \in users :
         /\ Len(policies[credential_id].allowed_users) < MaxAllowed
         /\ policies' = [policies EXCEPT ![credential_id].allowed_users = Append(@, user)]
         /\ last' = [op |-> "allow_user", credential_id |-> credential_id, user |-> user]
    /\ UNCHANGED <<calls, NotAccess>>

\* get_policy_mut(credential_id) then AccessPolicy::allow_tool
allow_tool(creds, tools) ==
    /\ \E credential_id \in creds \cap DOMAIN policies, tool \in tools :
         /\ Len(policies[credential_id].allowed_tools) < MaxAllowed
         /\ policies' = [policies EXCEPT ![credential_id].allowed_tools = Append(@, tool)]
         /\ last' = [op |-> "allow_tool", credential_id |-> credential_id, tool |-> tool]
    /\ UNCHANGED <<calls, NotAccess>>

\* AccessControlManager::check_access
call_check_access(creds, users, tools, actions) ==
    /\ \E credential_id \in creds, user \in users, tool \in tools, action \in actions :
         /\ credential_id \in DOMAIN policies =>
               Len(policies[credential_id].access_log) < MaxLog
         /\ LET r == manager_check_access(policies, credential_id, user, tool, action, now)
            IN  /\ policies' = r.policies
                /\ last' = [op |-> "check_access", credential_id |-> credential_id,
                            user |-> user, tool |-> tool, action |-> action,
                            ret |-> r.ret]
         /\ calls' = IF credential_id \in DOMAIN policies
                     THEN [calls EXCEPT ![credential_id] = @ + 1]
                     ELSE calls
    /\ UNCHANGED NotAccess

----------------------------------------------------------------------------
(* CommandValidator *)
(* A command is a sequence of one-character strings. *)

\* char::is_whitespace / the regex class \s, over the characters used here.
Whitespace == {" ", "\t"}

\* CommandValidator::new: the deny-list.
blacklist == {<<"r", "m">>, <<"d", "d">>, <<"m", "k", "f", "s">>, <<"f", "d", "i", "s", "k">>, <<"s", "h", "u", "t", "d", "o", "w", "n">>, <<"r", "e", "b", "o", "o", "t">>}

\* Heads, arguments and leading blanks the commands are built from.
Leads == {<<>>, <<" ">>, <<"\t", " ">>}
Heads == {<<"r", "m">>, <<"d", "d">>, <<"r", "e", "b", "o", "o", "t">>, <<"l", "s">>, <<"g", "i", "t">>, <<"r", "m", "d", "i", "r">>, <<>>}
Rests == {<<>>, <<" ", "-", "a">>, <<";", "l", "s">>, <<" ", "|", " ", "r", "m">>, <<" ", ">", " ", "/", "d", "e", "v", "/", "s", "d", "a">>, <<" ", ">", "/", "t", "m", "p">>, <<" ", "<", "\t", "(", "l", "s">>, <<"\t", "r", "m">>}
Commands == {l \o h \o r : l \in Leads, h \in Heads, r \in Rests}

\* Names given to add_whitelist.
WhitelistNames == {<<"g", "i", "t">>, <<"l", "s">>, <<"r", "m">>}

RECURSIVE skip_whitespace(_)
skip_whitespace(s) ==
    IF s # <<>> /\ Head(s) \in Whitespace THEN skip_whitespace(Tail(s)) ELSE s

RECURSIVE take_token(_)
take_token(s) ==
    IF s = <<>> \/ Head(s) \in Whitespace THEN <<>>
    ELSE <<Head(s)>> \o take_token(Tail(s))

\* command.split_whitespace().next().unwrap_or("")
cmd_name_of(command) == take_token(skip_whitespace(command))

\* The text starts with the literal lit.
starts_with(text, lit) ==
    Len(text) >= Len(lit) /\ SubSeq(text, 1, Len(lit)) = lit

\* The suffix of s from position i on.
From(s, i) == SubSeq(s, i, Len(s))

\* The backquote character (U+0060), written as a name.
Backquote == "backquote"

\* Regex: one of the characters ; & | backquote $ ( )
matches_shell_meta(command) ==
    \E i \in DOMAIN command : command[i] \in {";", "&", "|", Backquote, "$", "(", ")"}

\* Regex >\s*/dev/
matches_dev_redirect(command) ==
    \E i \in DOMAIN command :
        /\ command[i] = ">"
        /\ starts_with(skip_whitespace(From(command, i + 1)), <<"/", "d", "e", "v", "/">>)

\* Regex <\s*\(
matches_process_subst(command) ==
    \E i \in DOMAIN command :
        /\ command[i] = "<"
        /\ starts_with(skip_whitespace(From(command, i + 1)), <<"(">>)

\* for pattern in &self.injection_patterns { if pattern.is_match(command) ... }
injection_match_meta_only(command) == matches_shell_meta(command)
injection_match(command) ==
    \/ matches_shell_meta(command)
    \/ matches_dev_redirect(command)
    \/ matches_process_subst(command)

CommandValidationResult(is_valid, reason, requires_judgment) ==
    [is_valid |-> is_valid, reason |-> reason, requires_judgment |-> requires_judgment]

\* CommandValidator::validate
validate_injection_first(command, wl) ==
    LET cmd_name == cmd_name_of(command)
    IN  IF injection_match(command)
        THEN CommandValidationResult(TRUE, None, TRUE)
        ELSE IF cmd_name \in blacklist
        THEN CommandValidationResult(FALSE, <<"blacklisted", cmd_name>>, FALSE)
        ELSE IF wl # {} /\ cmd_name \notin wl
        THEN CommandValidationResult(TRUE, None, TRUE)
        ELSE CommandValidationResult(TRUE, None, FALSE)
validate(command, wl) ==
    LET cmd_name == cmd_name_of(command)
    IN  IF cmd_name \in blacklist
        THEN CommandValidationResult(FALSE, <<"blacklisted", cmd_name>>, FALSE)
        ELSE IF injection_match(command)
        THEN CommandValidationResult(TRUE, None, TRUE)
        ELSE IF wl # {} /\ cmd_name \notin wl
        THEN CommandValidationResult(TRUE, None, TRUE)
        ELSE CommandValidationResult(TRUE, None, FALSE)

\* CommandValidator::add_whitelist
add_whitelist ==
    /\ Cardinality(whitelist) < MaxWhitelist
    /\ \E command \in WhitelistNames :
         /\ whitelist' = whitelist \cup {command}
         /\ last' = [op |-> "add_whitelist", command |-> command]
    /\ UNCHANGED NotValidator

call_validate ==
    /\ \E command \in Commands :
         last' = [op |-> "validate", command |-> command,
                  ret |-> validate(command, whitelist)]
    /\ UNCHANGED <<whitelist, NotValidator>>

----------------------------------------------------------------------------
(* JudgmentCache *)

CachedJudgment(judgment, cached_at, ttl) ==
    [judgment |-> judgment, cached_at |-> cached_at, ttl |-> ttl]

\* JudgmentCache::get at clock reading t
get_inclusive(c, input_hash, t) ==
    IF input_hash \in DOMAIN c /\ t - c[input_hash].cached_at <= c[input_hash].ttl
    THEN Some(c[input_hash].judgment)
    ELSE Nothing
get(c, input_hash, t) ==
    IF input_hash \in DOMAIN c /\ t - c[input_hash].cached_at < c[input_hash].ttl
    THEN Some(c[input_hash].judgment)
    ELSE Nothing

\* self.cache.iter().min_by_key(|(_, v)| v.cached_at): the first entry, in the
\* map's iteration order, whose cached_at is minimal; None for an empty map.
min_by_key(c, order) ==
    IF order = <<>> THEN None
    ELSE LET i == CHOOSE i \in DOMAIN order :
                     /\ \A j \in DOMAIN order : c[order[i]].cached_at <= c[order[j]].cached_at
                     /\ \A j \in 1..(i - 1) : c[order[j]].cached_at > c[order[i]].cached_at
         IN  order[i]

\* The map without the key k.
map_remove(m, k) == [x \in DOMAIN m \ {k} |-> m[x]]

\* JudgmentCache::store at clock reading t, the map iterating in the given order.
cache_store(c, max_size, input_hash, judgment, ttl, t, order) ==
    LET oldest_key == min_by_key(c, order)
        kept == IF Cardinality(DOMAIN c) >= max_size /\ oldest_key # None
                THEN map_remove(c, oldest_key)
                ELSE c
    IN  map_insert(kept, input_hash, CachedJudgment(judgment, t, ttl))

\* JudgmentCache::store
cache_store_call ==
    /\ Len(storeLog) < MaxStores
    /\ \E input_hash \in Fingerprints, judgment \in Judgments, ttl \in TTLs,
          order \in IterationOrders(DOMAIN cache) :
         /\ cache' = cache_store(cache, cache_max_size, input_hash, judgment, ttl,
                                 now, order)
         /\ storeLog' = Append(storeLog, input_hash)
         /\ last' = [op |-> "store", input_hash |-> input_hash,
                     judgment |-> judgment, ttl |-> ttl]
    /\ UNCHANGED <<cache_max_size, NotCache>>

\* JudgmentCache::clear
cache_clear ==
    /\ cache' = <<>>
    /\ storeLog' = <<>>
    /\ last' = [op |-> "clear"]
    /\ UNCHANGED <<cache_max_size, NotCache>>

\* JudgmentCache::get
cache_get ==
    /\ \E input_hash \in Fingerprints :
         last' = [op |-> "get", input_hash |-> input_hash,
                  ret |-> get(cache, input_hash, now)]
    /\ UNCHANGED <<cacheVars, NotCache>>

\* Time passes between two calls of the cache.
cache_tick ==
    /\ \E d \in TickSteps :
         /\ now + d <= MaxCacheTicks * 30
         /\ now' = now + d
    /\ last' = [op |-> "tick"]
    /\ UNCHANGED NotClock

----------------------------------------------------------------------------
(* JudgmentPolicy *)

JudgmentPolicy_new ==
    [safe_action |-> "Allow", suspicious_action |-> "RequireConfirmation",
     dangerous_action |-> "Deny", unknown_action |-> "RequireConfirmation"]

\* JudgmentPolicy::get_action
get_action(p, category) ==
    CASE category = "Safe"       -> p.safe_action
      [] category = "Suspicious" -> p.suspicious_action
      [] category = "Dangerous"  -> p.dangerous_action
      [] category = "Unknown"    -> p.unknown_action

\* JudgmentPolicy::set_action
set_action_all(p, category, action) ==
    [safe_action |-> action, suspicious_action |-> action,
     dangerous_action |-> action, unknown_action |-> action]
set_action(p, category, action) ==
    CASE category = "Safe"       -> [p EXCEPT !.safe_action = action]
      [] category = "Suspicious" -> [p EXCEPT !.suspicious_action = action]
      [] category = "Dangerous"  -> [p EXCEPT !.dangerous_action = action]
      [] category = "Unknown"    -> [p EXCEPT !.unknown_action = action]

call_get_action ==
    /\ \E category \in JudgmentCategories :
         last' = [op |-> "get_action", category |-> category,
                  ret |-> get_action(judgment_policy, category)]
    /\ UNCHANGED <<judgment_policy, NotJudge>>

call_set_action ==
    /\ \E category \in JudgmentCategories, action \in PolicyActions :
         /\ judgment_policy' = set_action(judgment_policy, category, action)
         /\ last' = [op |-> "set_action", category |-> category, action |-> action]
    /\ UNCHANGED NotJudge

----------------------------------------------------------------------------
(* OllamaClient::judge_input *)
(* What the HTTP exchange yields is an input of the call: the request fails *)
(* (connection error or timeout), the body cannot be read as JSON, or the   *)
(* body is a JSON object whose "response" member is absent, not a string,   *)
(* a string that is not JSON, or a string holding a JSON value.            *)

\* A member that a JSON object does not have.
Absent == [t |-> "absent"]
\* A string that does not parse as JSON.
NotJson == [t |-> "invalid"]

JsonStr(s) == [t |-> "str", s |-> s]
JsonNum(n) == [t |-> "num", n |-> n]
JsonObj(category, confidence, reasoning) ==
    [t |-> "obj", category |-> category, confidence |-> confidence,
     reasoning |-> reasoning]

\* The JSON values a "response" string may hold.
JudgmentJsons ==
    {JsonNum(42)} \cup
    {JsonObj(c, n, r) :
        c \in {Absent, JsonStr("Safe"), JsonStr("Suspicious"), JsonStr("Dangerous"),
               JsonStr("Unknown"), JsonStr("safe"), JsonNum(1)},
        n \in {Absent, JsonNum(0), JsonNum(95), JsonNum(100), JsonNum(101),
               JsonNum(200), JsonNum(300), JsonNum(-1), JsonStr("high")},
        r \in {Absent, JsonStr("ok"), JsonNum(0)}}

\* What the exchange with the endpoint yields.
Exchanges ==
    {[kind |-> "send_error", error |-> e] : e \in {"connection refused", "timed out"}}
    \cup {[kind |-> "body_error", error |-> "expected value"]}
    \cup {[kind |-> "body", response |-> r] :
            r \in {Absent, JsonNum(7), NotJson}
                  \cup {[t |-> "text", json |-> j] : j \in JudgmentJsons}}

\* serde_json Value::get(member): None unless the value is an object having it.
json_get(value, member) ==
    IF value.t # "obj" THEN Absent
    ELSE CASE member = "category"   -> value.category
           [] member = "confidence" -> value.confidence
           [] member = "reasoning"  -> value.reasoning

\* Option<&Value>::and_then(|v| v.as_str())
as_str(v) == IF v.t = "str" THEN Some(v.s) ELSE Nothing

\* Option<&Value>::and_then(|v| v.as_u64())
as_u64(v) == IF v.t = "num" /\ v.n >= 0 THEN Some(v.n) ELSE Nothing

\* Option::unwrap_or
unwrap_or(o, default) == IF o.some THEN o.val ELSE default

\* match category { "Safe" => Safe, "Suspicious" => .., "Dangerous" => .., _ => Unknown }
category_of(name) ==
    IF name \in {"Safe", "Suspicious", "Dangerous"} THEN name ELSE "Unknown"

\* The Judgment built from the JSON value of the "response" string.
judgment_of(judgment_json) ==
    [category   |-> category_of(unwrap_or(as_str(json_get(judgment_json, "category")),
                                          "Unknown")),
     confidence |-> unwrap_or(as_u64(json_get(judgment_json, "confidence")), 50) % 256,
     reasoning  |-> unwrap_or(as_str(json_get(judgment_json, "reasoning")),
                              "No reasoning provided")]

\* OllamaClient::judge_input, given what the exchange yields.
judge_input_conservative(exchange) ==
    IF exchange.kind = "body" /\ exchange.response.t = "text"
    THEN Ok(judgment_of(exchange.response.json))
    ELSE Ok([category |-> "Unknown", confidence |-> 50,
             reasoning |-> "No reasoning provided"])
judge_input(exchange) ==
    CASE exchange.kind = "send_error" ->
            Err(<<"Ollama connection failed", exchange.error>>)
      [] exchange.kind = "body_error" ->
            Err(<<"Failed to parse response", exchange.error>>)
      [] exchange.kind = "body" ->
            IF exchange.response.t = "text"
            THEN Ok(judgment_of(exchange.response.json))
            ELSE Err("Failed to parse Ollama response")

call_judge_input ==
    /\ \E exchange \in Exchanges :
         last' = [op |-> "judge_input", exchange |-> exchange,
                  ret |-> judge_input(exchange)]
    /\ UNCHANGED <<coreVars, now, laterVars>>

----------------------------------------------------------------------------
(* ConfigValidator *)

\* Values the gates are called with: around every bound and in between.
IntervalDays    == (0..45) \cup (350..380)
RateLimits      == (0..15) \cup (9990..10010)
ExpirationHours == (-5..15) \cup (710..730)

validate_encryption_enabled(enabled) ==
    IF ~enabled THEN Err("Encryption must be enabled for security") ELSE Ok(Unit)

validate_key_rotation_interval_open(days) ==
    IF days <= 30 THEN Err("Key rotation interval must be at least 30 days")
    ELSE IF days > 365 THEN Err("Key rotation interval must not exceed 365 days")
    ELSE Ok(Unit)
validate_key_rotation_interval(days) ==
    IF days < 30 THEN Err("Key rotation interval must be at least 30 days")
    ELSE IF days > 365 THEN Err("Key rotation interval must not exceed 365 days")
    ELSE Ok(Unit)

validate_rate_limit(limit) ==
    IF limit = 0 THEN Err("Rate limit must be greater than 0")
    ELSE IF limit > 10000 THEN Err("Rate limit must not exceed 10000")
    ELSE Ok(Unit)

validate_tls_enabled(enabled) ==
    IF ~enabled THEN Err("TLS must be enabled for gateway") ELSE Ok(Unit)

validate_token_expiration(hours) ==
    IF hours < 1 THEN Err("Token expiration must be at least 1 hour")
    ELSE IF hours > 720 THEN Err("Token expiration must not exceed 30 days")
    ELSE Ok(Unit)

call_validate_encryption_enabled ==
    /\ \E enabled \in BOOLEAN :
         last' = [op |-> "validate_encryption_enabled", arg |-> enabled, ret |-> validate_encryption_enabled(enabled)]
    /\ UNCHANGED <<coreVars, now, laterVars>>

call_validate_key_rotation_interval ==
    /\ \E days \in IntervalDays :
         last' = [op |-> "validate_key_rotation_interval", arg |-> days, ret |-> validate_key_rotation_interval(days)]
    /\ UNCHANGED <<coreVars, now, laterVars>>

call_validate_rate_limit ==
    /\ \E limit \in RateLimits :
         last' = [op |-> "validate_rate_limit", arg |-> limit, ret |-> validate_rate_limit(limit)]
    /\ UNCHANGED <<coreVars, now, laterVars>>

call_validate_tls_enabled ==
    /\ \E enabled \in BOOLEAN :
         last' = [op |-> "validate_tls_enabled", arg |-> enabled, ret |-> validate_tls_enabled(enabled)]
    /\ UNCHANGED <<coreVars, now, laterVars>>

call_validate_token_expiration ==
    /\ \E hours \in ExpirationHours :
         last' = [op |-> "validate_token_expiration", arg |-> hours, ret |-> validate_token_expiration(hours)]
    /\ UNCHANGED <<coreVars, now, laterVars>>

----------------------------------------------------------------------------
(* SandboxMonitor *)

SandboxViolation(violation_type, details) ==
    [violation_type |-> violation_type, details |-> details]

\* VecDeque::pop_front: nothing happens on an empty queue.
pop_front(q) == IF q = <<>> THEN q ELSE Tail(q)
pop_back(q)  == IF q = <<>> THEN q ELSE SubSeq(q, 1, Len(q) - 1)

\* SandboxMonitor::record_violation
record_violation_drop_newest(vs, max, violation) ==
    Append(IF Len(vs) >= max THEN pop_back(vs) ELSE vs, violation)
record_violation(vs, max, violation) ==
    Append(IF Len(vs) >= max THEN pop_front(vs) ELSE vs, violation)

\* str::contains(lit), lit not empty
contains(text, lit) ==
    \E i \in 1..(Len(text) - Len(lit) + 1) : SubSeq(text, i, i + Len(lit) - 1) = lit

\* command.contains("sudo") || command.contains("su ")
is_privilege_escalation_sudo_only(command) == contains(command, <<"s", "u", "d", "o">>)
is_privilege_escalation(command) ==
    \/ contains(command, <<"s", "u", "d", "o">>)
    \/ contains(command, <<"s", "u", " ">>)

\* path.contains("..")
is_symlink_escape(path) == contains(path, <<".", ".">>)

call_record_violation ==
    /\ Len(recorded) < MaxRecorded
    /\ \E details \in ViolationDetails :
         LET violation == SandboxViolation("FileSystemAccess", details)
         IN  /\ violations' = record_violation(violations, max_violations, violation)
             /\ recorded' = Append(recorded, violation)
             /\ last' = [op |-> "record_violation", violation |-> violation]
    /\ UNCHANGED <<max_violations, NotMonitor>>

\* SandboxMonitor::detect_privilege_escalation
detect_privilege_escalation ==
    /\ Len(recorded) < MaxRecorded
    /\ \E command \in SandboxInputs :
         LET violation == SandboxViolation("PrivilegeEscalation",
                              <<"Privilege escalation attempt: ">> \o command)
         IN  IF is_privilege_escalation(command)
             THEN /\ violations' = record_violation(violations, max_violations, violation)
                  /\ recorded' = Append(recorded, violation)
                  /\ last' = [op |-> "detect_privilege_escalation",
                              input |-> command, ret |-> TRUE]
             ELSE /\ UNCHANGED <<violations, recorded>>
                  /\ last' = [op |-> "detect_privilege_escalation",
                              input |-> command, ret |-> FALSE]
    /\ UNCHANGED <<max_violations, NotMonitor>>

\* SandboxMonitor::detect_symlink_escape
detect_symlink_escape ==
    /\ Len(recorded) < MaxRecorded
    /\ \E path \in SandboxInputs :
         LET violation == SandboxViolation("SymlinkEscape",
                              <<"Symlink escape attempt: ">> \o path)
         IN  IF is_symlink_escape(path)
             THEN /\ violations' = record_violation(violations, max_violations, violation)
                  /\ recorded' = Append(recorded, violation)
                  /\ last' = [op |-> "detect_symlink_escape",
                              input |-> path, ret |-> TRUE]
             ELSE /\ UNCHANGED <<violations, recorded>>
                  /\ last' = [op |-> "detect_symlink_escape",
                              input |-> path, ret |-> FALSE]
    /\ UNCHANGED <<max_violations, NotMonitor>>

\* SandboxMonitor::get_violations
get_violations ==
    /\ last' = [op |-> "get_violations",
                ret |-> [i \in 1..Len(violations) |-> violations[i]]]
    /\ UNCHANGED <<monitorVars, NotMonitor>>

\* SandboxMonitor::clear_violations
clear_violations ==
    /\ violations' = <<>>
    /\ recorded' = <<>>
    /\ last' = [op |-> "clear_violations"]
    /\ UNCHANGED <<max_violations, NotMonitor>>

----------------------------------------------------------------------------
(* TokenStore *)

\* A token as TokenGenerator::generate builds it at time t, its expires_at as
\* the caller leaves or sets it (the field is public).
SessionToken(token_id, user_id, expires_at, t) ==
    [token_id |-> token_id, user_id |-> user_id, expires_at |-> expires_at,
     last_used |-> t]

\* TokenStore::validate: token.expires_at < Utc::now()
is_token_expired_at_now(token, t) == token.expires_at <= t
is_token_expired(token, t) == token.expires_at < t

\* TokenStore::validate at clock reading t: its result and the table it leaves.
token_validate(ts, revoked, token_id, t) ==
    IF token_id \in revoked
    THEN [ret |-> Err("Token revoked"), tokens |-> ts]
    ELSE IF token_id \notin DOMAIN ts
    THEN [ret |-> Err("Token not found"), tokens |-> ts]
    ELSE IF is_token_expired(ts[token_id], t)
    THEN [ret |-> Err("Token expired"), tokens |-> ts]
    ELSE [ret |-> Ok(ts[token_id]),
          tokens |-> [ts EXCEPT ![token_id].last_used = t]]

\* TokenStore::revoke: the revoked set and the table it leaves.
token_revoke_remove_only(ts, revoked, token_id) ==
    [revoked_tokens |-> revoked, tokens |-> map_remove(ts, token_id)]
token_revoke(ts, revoked, token_id) ==
    [revoked_tokens |-> revoked \cup {token_id},
     tokens |-> IF token_id \in DOMAIN ts THEN map_remove(ts, token_id) ELSE ts]

\* TokenStore::cleanup_expired: self.tokens.retain(|_, token| token.expires_at > now)
token_cleanup_expired(ts, t) ==
    LET kept == {id \in DOMAIN ts : ts[id].expires_at > t}
    IN  [ret |-> Cardinality(DOMAIN ts) - Cardinality(kept),
         tokens |-> [id \in kept |-> ts[id]]]

\* TokenStore::store
call_token_store ==
    /\ \E token_id \in TokenIds, expires_at \in ExpiryTimes :
         LET token == SessionToken(token_id, "user1", expires_at, now)
         IN  /\ tokens' = map_insert(tokens, token.token_id, token)
             /\ last' = [op |-> "store", token_id |-> token_id, token |-> token]
    /\ UNCHANGED <<revoked_tokens, revoke_called, NotTokens>>

\* TokenStore::validate
call_token_validate ==
    /\ \E token_id \in TokenIds :
         LET r == token_validate(tokens, revoked_tokens, token_id, now)
         IN  /\ tokens' = r.tokens
             /\ last' = [op |-> "validate", token_id |-> token_id, ret |-> r.ret]
    /\ UNCHANGED <<revoked_tokens, revoke_called, NotTokens>>

\* TokenStore::revoke
call_revoke ==
    /\ \E token_id \in TokenIds :
         LET r == token_revoke(tokens, revoked_tokens, token_id)
         IN  /\ tokens' = r.tokens
             /\ revoked_tokens' = r.revoked_tokens
             /\ revoke_called' = revoke_called \cup {token_id}
             /\ last' = [op |-> "revoke", token_id |-> token_id]
    /\ UNCHANGED NotTokens

\* TokenStore::cleanup_expired
call_cleanup_expired ==
    /\ LET r == token_cleanup_expired(tokens, now)
       IN  /\ tokens' = r.tokens
           /\ last' = [op |-> "cleanup_expired", ret |-> r.ret]
    /\ UNCHANGED <<revoked_tokens, revoke_called, NotTokens>>

----------------------------------------------------------------------------
(* SensitiveData *)

\* The heap allocation behind the Vec<u8> of one SensitiveData value: the
\* bytes its memory holds, whether it has been returned to the allocator
\* (bytes is then what the memory held at that moment), and the buffer it
\* was cloned from (0 for a value made by SensitiveData::new).
Buffer(bytes, copy_of) == [bytes |-> bytes, released |-> FALSE, copy_of |-> copy_of]

\* The buffers not yet dropped.
LiveBuffers == {b \in DOMAIN buffers : ~buffers[b].released}

\* Vec<u8>::zeroize(): every byte of the allocation is overwritten with 0
\* (the vector is then cleared, which leaves the memory as it is).
zeroize_clear_only(bytes) == bytes
zeroize(bytes) == [i \in DOMAIN bytes |-> 0]

\* impl Drop for SensitiveData, followed by the drop of the Vec, which frees
\* the allocation.
drop(buffer) == [buffer EXCEPT !.bytes = zeroize(buffer.bytes), !.released = TRUE]

\* SensitiveData::new: the value takes over the allocation of `data`.
SensitiveData_new ==
    /\ last.op # "abort"
    /\ Len(buffers) < MaxBuffers
    /\ \E data \in SecretBytes :
         buffers' = Append(buffers, Buffer(data, 0))
    /\ last' = [op |-> "SensitiveData::new", buffer |-> Len(buffers) + 1]
    /\ UNCHANGED NotMemory

\* #[derive(Clone)]: Vec::clone copies the bytes into an allocation of its own.
SensitiveData_clone ==
    /\ last.op # "abort"
    /\ Len(buffers) < MaxBuffers
    /\ \E b \in LiveBuffers :
         /\ buffers' = Append(buffers, Buffer(buffers[b].bytes, b))
         /\ last' = [op |-> "clone", buffer |-> Len(buffers) + 1, of |-> b]
    /\ UNCHANGED NotMemory

\* SensitiveData::as_bytes
as_bytes ==
    /\ last.op # "abort"
    /\ \E b \in LiveBuffers :
         last' = [op |-> "as_bytes", buffer |-> b, ret |-> buffers[b].bytes]
    /\ UNCHANGED <<memoryVars, NotMemory>>

\* A SensitiveData value goes out of scope: at the end of its block, on an
\* early return with an error, or while a panic unwinds the stack.  Its
\* destructor runs on each of these paths.
SensitiveData_drop ==
    /\ last.op # "abort"
    /\ \E b \in LiveBuffers, path \in ExitPaths :
         /\ buffers' = [buffers EXCEPT ![b] = drop(buffers[b])]
         /\ last' = [op |-> "drop", buffer |-> b, path |-> path]
    /\ UNCHANGED NotMemory

\* The process aborts (panic = "abort", process::abort): no destructor runs
\* and no allocation is returned to the allocator; nothing runs afterwards.
process_abort ==
    /\ last.op # "abort"
    /\ last' = [op |-> "abort"]
    /\ UNCHANGED <<memoryVars, NotMemory>>

----------------------------------------------------------------------------
(* CommandAuditLog *)

\* serde_json::to_string(&entry): the JSON text of the entry, as tokens.
to_string(entry) == <<"{", entry.command, entry.user, "}">>

\* writeln!(file, "{}", json): File is unbuffered and write_fmt hands the JSON
\* text and the newline to write_all one after the other, so the line reaches
\* the file in pieces.
line_of(json) == json \o <<"\n">>

\* CommandAuditLog::log_command under the given outcome of open and write:
\* its result, the entry list and the file it leaves.
log_command(es, file, entry, io) ==
    CASE io.kind = "ok" ->
            [ret |-> Ok(Unit), entries |-> Append(es, entry),
             log_file |-> file \o line_of(to_string(entry))]
      [] io.kind = "open_error" ->
            [ret |-> Err("Failed to open log file"), entries |-> es,
             log_file |-> file]
      [] io.kind = "write_error" ->
            [ret |-> Err("Failed to write log"), entries |-> es,
             log_file |-> file \o SubSeq(line_of(to_string(entry)), 1, io.written)]

\* get_entries_for_user: entries.iter().filter(|e| e.user == user).cloned().collect()
entries_for_user(es, user) == SelectSeq(es, LAMBDA e : e.user = user)

\* CommandAuditLog::log_command
call_log_command ==
    /\ \E entry \in AuditEntries, io \in IoOutcomes :
         LET r == log_command(entries, log_file, entry, io)
         IN  /\ Len(r.log_file) <= MaxFileLen
             /\ entries' = r.entries
             /\ log_file' = r.log_file
             /\ last' = [op |-> "log_command", entry |-> entry, io |-> io,
                         ret |-> r.ret]
    /\ UNCHANGED <<entries_cleared, NotAudit>>

\* CommandAuditLog::get_entries
get_entries ==
    /\ last' = [op |-> "get_entries", ret |-> entries]
    /\ UNCHANGED <<auditVars, NotAudit>>

\* CommandAuditLog::get_entries_for_user
get_entries_for_user ==
    /\ \E user \in AuditUsers :
         last' = [op |-> "get_entries_for_user", user |-> user,
                  ret |-> entries_for_user(entries, user)]
    /\ UNCHANGED <<auditVars, NotAudit>>

\* CommandAuditLog::clear: empties the entry list, not the file.
audit_clear ==
    /\ entries' = <<>>
    /\ entries_cleared' = TRUE
    /\ last' = [op |-> "clear"]
    /\ UNCHANGED <<log_file, NotAudit>>

----------------------------------------------------------------------------
(* Initial states and specifications *)

\* KeyStore::new(), its key drawn from KM.
KeyStoreInit(KM) ==
    /\ current_version = 1
    /\ \E km \in KM : keys = KeyStore_new_keys(km)
    /\ rotation_history = <<>>

\* CredentialVault::new(key_material), key_material from KM.
VaultInit(KM) ==
    /\ vault_key \in KM
    /\ vault_version = 1
    /\ credentials = <<>>
    /\ encLog = <<>>
    /\ stored = [id \in Ids |-> None]

\* RateLimiter::new(max_requests_per_minute), the argument from maxes.
LimiterInit(maxes) == \E m \in maxes : limiter = RateLimiter_new(m)

\* JudgmentPolicy::new()
JudgmentPolicyInit == judgment_policy = JudgmentPolicy_new

\* SandboxMonitor::new(max_violations), the argument from maxes.
MonitorInit(maxes) ==
    /\ violations = <<>>
    /\ max_violations \in maxes
    /\ recorded = <<>>

\* TokenStore::new()
TokenStoreInit ==
    /\ tokens = <<>>
    /\ revoked_tokens = {}
    /\ revoke_called = {}

\* No SensitiveData value has been created yet.
MemoryInit == buffers = <<>>

\* CommandAuditLog::new(log_path), the file at log_path not yet written to.
AuditInit ==
    /\ entries = <<>>
    /\ log_file = <<>>
    /\ entries_cleared = FALSE

\* The judgment policy, the sandbox monitor, the token store and the audit log
\* as constructed.
LaterInit ==
    /\ JudgmentPolicyInit
    /\ MonitorInit({MaxViolations})
    /\ TokenStoreInit
    /\ MemoryInit
    /\ AuditInit

\* The key store and the vault, beside the other components as constructed.
Init ==
    /\ KeyStoreInit(KeyMaterial)
    /\ VaultInit(KeyMaterial)
    /\ now = 0
    /\ LimiterInit({MaxRequests})
    /\ policies = <<>>
    /\ calls = <<>>
    /\ whitelist = {}
    /\ cache = <<>>
    /\ cache_max_size = 0
    /\ storeLog = <<>>
    /\ LaterInit
    /\ last = [op |-> "new"]

NextKeyStore ==
    \/ rotate_key
    \/ retire_old_keys
    \/ log_rotation
    \/ call_get_current_key
    \/ call_get_key_by_version

SpecKeyStore == Init /\ [][NextKeyStore]_vars

NextVault ==
    \/ call_encrypt
    \/ call_decrypt
    \/ store
    \/ call_retrieve
    \/ delete

SpecVault == Init /\ [][NextVault]_vars

\* The vault beside a key store that is rotated and retired.
NextVaultKeyStore ==
    \/ NextVault
    \/ rotate_key
    \/ retire_old_keys

SpecVaultKeyStore == Init /\ [][NextVaultKeyStore]_vars

\* A component other than the key store and the vault is explored beside one
\* fixed key store and vault.
OthersInit ==
    /\ KeyStoreInit({1})
    /\ VaultInit({1})
    /\ now = 0
    /\ last = [op |-> "new"]

InitRateLimiter ==
    /\ OthersInit
    /\ LaterInit
    /\ LimiterInit(0..MaxRequests)
    /\ policies = <<>>
    /\ calls = <<>>
    /\ whitelist = {}
    /\ cache = <<>>
    /\ cache_max_size = 0
    /\ storeLog = <<>>

NextRateLimiter ==
    \/ call_check_limit
    \/ Tick

SpecRateLimiter == InitRateLimiter /\ [][NextRateLimiter]_vars

\* AccessControlManager::new()
InitAccess ==
    /\ OthersInit
    /\ LimiterInit({MaxRequests})
    /\ policies = <<>>
    /\ calls = <<>>
    /\ whitelist = {}
    /\ cache = <<>>
    /\ cache_max_size = 0
    /\ storeLog = <<>>
    /\ LaterInit

\* One policy, with every limit, checked for every user and tool.
NextAccessPolicy ==
    \/ create_policy({"cred1"}, PolicyLimits)
    \/ allow_user({"cred1"}, {"alice"})
    \/ allow_tool({"cred1"}, {"shell"})
    \/ call_check_access({"cred1"}, Users, Tools, {"Read", "Rotate"})
    \/ Tick

SpecAccessPolicy == InitAccess /\ [][NextAccessPolicy]_vars

\* The manager with two credentials.
NextAccessManager ==
    \/ create_policy(CredentialIds, {1})
    \/ allow_user(CredentialIds, {"alice"})
    \/ call_check_access(CredentialIds, Users, {"shell"}, {"Read"})

SpecAccessManager == InitAccess /\ [][NextAccessManager]_vars

\* CommandValidator::new()
InitValidator == InitAccess

NextValidator == add_whitelist \/ call_validate

SpecValidator == InitValidator /\ [][NextValidator]_vars

\* JudgmentCache::new(max_size)
InitCache ==
    /\ OthersInit
    /\ LaterInit
    /\ LimiterInit({MaxRequests})
    /\ policies = <<>>
    /\ calls = <<>>
    /\ whitelist = {}
    /\ cache = <<>>
    /\ cache_max_size \in 0..MaxCacheSize
    /\ storeLog = <<>>

NextCache == cache_store_call \/ cache_clear \/ cache_get \/ cache_tick

SpecCache == InitCache /\ [][NextCache]_vars

\* The security core as constructed: what the specifications of the tools and
\* gateway components start from.
CoreInit ==
    /\ OthersInit
    /\ LimiterInit({MaxRequests})
    /\ policies = <<>>
    /\ calls = <<>>
    /\ whitelist = {}
    /\ cache = <<>>
    /\ cache_max_size = 0
    /\ storeLog = <<>>

InitJudgmentPolicy == CoreInit /\ LaterInit

NextJudgmentPolicy == call_get_action \/ call_set_action

SpecJudgmentPolicy == InitJudgmentPolicy /\ [][NextJudgmentPolicy]_vars

\* OllamaClient::new(endpoint, model)
InitJudge == CoreInit /\ LaterInit

NextJudge == call_judge_input

SpecJudge == InitJudge /\ [][NextJudge]_vars

InitMonitor ==
    /\ CoreInit
    /\ JudgmentPolicyInit
    /\ MonitorInit(0..MaxViolations)
    /\ TokenStoreInit
    /\ MemoryInit
    /\ AuditInit

NextMonitor ==
    \/ call_record_violation
    \/ detect_privilege_escalation
    \/ detect_symlink_escape
    \/ get_violations
    \/ clear_violations

SpecMonitor == InitMonitor /\ [][NextMonitor]_vars

InitTokenStore == CoreInit /\ LaterInit

NextTokenStore ==
    \/ call_token_store
    \/ call_token_validate
    \/ call_revoke
    \/ call_cleanup_expired
    \/ Tick

SpecTokenStore == InitTokenStore /\ [][NextTokenStore]_vars

\* ConfigValidator has no state.
InitConfig == CoreInit /\ LaterInit

NextConfig ==
    \/ call_validate_encryption_enabled
    \/ call_validate_key_rotation_interval
    \/ call_validate_rate_limit
    \/ call_validate_tls_enabled
    \/ call_validate_token_expiration

SpecConfig == InitConfig /\ [][NextConfig]_vars

\* SensitiveData values created, cloned, read and dropped.
InitMemory == CoreInit /\ LaterInit

NextMemory ==
    \/ SensitiveData_new
    \/ SensitiveData_clone
    \/ as_bytes
    \/ SensitiveData_drop
    \/ process_abort

SpecMemory == InitMemory /\ [][NextMemory]_vars

\* One CommandAuditLog writing to its file.
InitAudit == CoreInit /\ LaterInit

NextAudit ==
    \/ call_log_command
    \/ get_entries
    \/ get_entries_for_user
    \/ audit_clear

SpecAudit == InitAudit /\ [][NextAudit]_vars

----------------------------------------------------------------------------
(* Properties of the KeyStore *)

ActiveVersions == {v \in DOMAIN keys : keys[v].status = "Active"}

\* The n highest-numbered versions of S (all of S when it has fewer).
RECURSIVE MostRecent(_, _)
MostRecent(S, n) ==
    IF n = 0 \/ S = {} THEN {}
    ELSE LET top == CHOOSE v \in S : \A w \in S : w <= v
         IN  {top} \cup MostRecent(S \ {top}, n - 1)

\* C1: in every reachable state current_version names an entry of the key
\* map, and that entry is the only one whose status is Active.
C1_CurrentIsSoleActive ==
    /\ current_version \in DOMAIN keys
    /\ ActiveVersions = {current_version}

\* C2: retire_old_keys(k) leaves exactly the k highest-numbered versions (all
\* when fewer exist); retire_old_keys(1) on a store that holds its current
\* version leaves only that version, so get_current_key still succeeds.
C2_RetireKeepsMostRecent ==
    [][last'.op = "retire_old_keys" =>
         /\ DOMAIN keys' = MostRecent(DOMAIN keys, last'.keep_versions)
         /\ (last'.keep_versions = 1 /\ current_version \in DOMAIN keys) =>
               /\ DOMAIN keys' = {current_version}
               /\ get_current_key(keys', current_version').ok]_vars

\* C3: a rotate_key call returns old current_version + 1 and makes it the
\* current version; every version present before a call other than
\* retire_old_keys (rotate_key included) is still retrievable, with the same
\* key material, after it.
C3_RotateAddsNextVersion ==
    [][/\ last'.op = "rotate_key" =>
            /\ last'.ret = Ok(current_version + 1)
            /\ current_version' = current_version + 1
            /\ get_key_by_version(keys', current_version').ok
       /\ last'.op # "retire_old_keys" =>
            \A v \in DOMAIN keys :
                get_key_by_version(keys', v) = get_key_by_version(keys, v)]_vars

\* C3 witness: a rotation happened in a store that already held an older version.
C3_Witness ==
    /\ last.op = "rotate_key"
    /\ current_version = 3
    /\ {1, 2} \subseteq DOMAIN keys

\* C4: at most one key version has status Active.
C4_AtMostOneActive == Cardinality(ActiveVersions) <= 1

\* C4 witness: a rotation made on a store whose current version had been
\* retired, leaving an older version beside the new Active one.
C4_Witness ==
    /\ last.op = "rotate_key"
    /\ current_version - 1 \notin DOMAIN keys
    /\ Cardinality(DOMAIN keys) >= 2
    /\ Cardinality(ActiveVersions) = 1

----------------------------------------------------------------------------
(* Properties of the CredentialVault *)

\* C5: decrypt resolves its key by the version stamped on the value: a value
\* returned by encrypt decrypts under the key the key store holds for that
\* version, and fails (key version missing) when the store no longer holds
\* the version.
C5_DecryptResolvesStampedVersion ==
    (last.op = "decrypt" /\ last.encrypted \in Returned) =>
        LET k == get_key_by_version(keys, last.encrypted.version)
        IN  IF k.ok THEN last.ret = decrypt(k.val, last.encrypted)
            ELSE last.ret = Err("Key version not found")

\* C6: a value the vault stores is stamped with the key store's current
\* version, and the version of every stored value names a key version the
\* key store still holds.
C6_StampedVersionInKeyStore ==
    [][/\ last'.op = "store" => credentials'[last'.id].version = current_version
       /\ \A id \in DOMAIN credentials' : credentials'[id].version \in DOMAIN keys']_vars

\* C7: decrypt of a value that encrypt returned for plaintext P, on the same
\* vault, returns P.
C7_RoundTrip ==
    last.op = "decrypt" =>
        \A i \in DOMAIN encLog :
            encLog[i].out = last.encrypted => last.ret = Ok(encLog[i].plaintext)

\* C7 witness: a value encrypted with the second nonce was decrypted.
C7_Witness ==
    /\ last.op = "decrypt"
    /\ last.ret.ok
    /\ \E i \in DOMAIN encLog : encLog[i].out = last.encrypted /\ last.encrypted.iv = 2

\* C8: retrieve(id) returns the plaintext of the latest store(id, _) not
\* followed by delete(id), and fails with "Credential not found" when there
\* is none.
C8_RetrieveLatestStore ==
    last.op = "retrieve" =>
        last.ret = IF stored[last.id] = None THEN Err("Credential not found")
                   ELSE Ok(stored[last.id])

\* C8 witness: after two stores, the second with another plaintext, a
\* retrieve returned the second plaintext while one credential is held.
C8_Witness ==
    /\ last.op = "retrieve"
    /\ Len(encLog) = 2
    /\ encLog[1].plaintext # encLog[2].plaintext
    /\ last.ret = Ok(encLog[2].plaintext)
    /\ Cardinality(DOMAIN credentials) = 1

\* C9: retrieve(id) and delete(id) on an id the vault does not hold fail with
\* "Credential not found" and leave the credential map as it was.
C9_AbsentIdFailsUnchanged ==
    [][(last'.op \in {"retrieve", "delete"} /\ last'.id \notin DOMAIN credentials) =>
         /\ last'.ret = Err("Credential not found")
         /\ credentials' = credentials]_vars

\* C9 witness: a delete of an absent id failed while another credential is held.
C9_Witness ==
    /\ last.op = "delete"
    /\ ~last.ret.ok
    /\ DOMAIN credentials # {}

\* C10: two encryptions of the same plaintext by the same vault carry
\* different nonces and different ciphertexts.
C10_FreshNonce ==
    \A i, j \in DOMAIN encLog :
        (i < j /\ encLog[i].plaintext = encLog[j].plaintext) =>
            /\ encLog[i].out.iv # encLog[j].out.iv
            /\ encLog[i].out.ciphertext # encLog[j].out.ciphertext

----------------------------------------------------------------------------
(* Properties of the RateLimiter *)

\* The timestamps of queue q that lie in the window that ends at t.
InWindow(q, t) == SelectSeq(q, LAMBDA x : x >= t - WindowSize)

\* C11: right after a check_limit call at time now, successful or not, every
\* queued timestamp lies in [now - window, now] and the queue is no longer
\* than max_requests (max_requests = 0 included).
C11_QueueWithinWindowAndLimit ==
    last.op = "check_limit" =>
        /\ \A i \in DOMAIN limiter.requests :
              /\ limiter.requests[i] >= now - WindowSize
              /\ limiter.requests[i] <= now
        /\ Len(limiter.requests) <= limiter.max_requests

\* C11 witness: a check made 90 s after the start left a full queue of two or
\* more timestamps, the oldest of them on the edge of the window.
C11_Witness ==
    /\ last.op = "check_limit"
    /\ now >= 90
    /\ limiter.max_requests >= 2
    /\ Len(limiter.requests) = limiter.max_requests
    /\ limiter.requests[1] = now - WindowSize

\* C12: check_limit succeeds and appends now exactly when fewer than
\* max_requests timestamps of the window remain; otherwise it fails with
\* "Rate limit exceeded" and appends nothing.
C12_SucceedsIffBelowLimit ==
    [][last'.op = "check_limit" =>
         LET remaining == InWindow(limiter.requests, now)
         IN  IF Len(remaining) < limiter.max_requests
             THEN /\ last'.ret = Ok(Unit)
                  /\ limiter'.requests = Append(remaining, now)
             ELSE /\ last'.ret = Err("Rate limit exceeded")
                  /\ limiter'.requests = remaining]_vars

\* C12 witness: with max_requests = 3, three checks were recorded in one
\* window and the next one failed.
C12_Witness ==
    /\ last.op = "check_limit"
    /\ ~last.ret.ok
    /\ limiter.max_requests = 3
    /\ Len(limiter.requests) = 3

\* C13 (as claimed): after a check_limit call at time now no queued timestamp
\* equals now - window: such a timestamp has been pruned.
C13_EdgeTimestampPruned ==
    [][last'.op = "check_limit" =>
         (now - WindowSize) \notin Range(limiter'.requests)]_vars

\* C13 (amended): a queued timestamp equal to now - window is kept by a
\* check_limit call at time now and counts against max_requests: the call
\* succeeds only if the timestamps not earlier than now - window, that one
\* included, are fewer than max_requests.
C13_EdgeTimestampKept ==
    [][(last'.op = "check_limit" /\ (now - WindowSize) \in Range(limiter.requests)) =>
         /\ (now - WindowSize) \in Range(limiter'.requests)
         /\ last'.ret.ok <=>
              Cardinality({i \in DOMAIN limiter.requests :
                             limiter.requests[i] >= now - WindowSize})
                < limiter.max_requests]_vars

\* C13 witness: the only queued timestamp is exactly one window old, and the
\* check failed because of it.
C13_Witness ==
    /\ last.op = "check_limit"
    /\ ~last.ret.ok
    /\ limiter.max_requests = 1
    /\ limiter.requests = <<now - WindowSize>>

----------------------------------------------------------------------------
(* Properties of the AccessPolicy and the AccessControlManager *)

\* The allow-list denies x: it is non-empty and x is not in it.
Denies(list, x) == list # <<>> /\ x \notin Range(list)

\* What the rate limiter l answers to a check at time t.
LimiterAnswer(l, t) ==
    IF Len(InWindow(l.requests, t)) < l.max_requests
    THEN Ok(Unit)
    ELSE Err("Rate limit exceeded")

\* C14: check_access of a policy evaluates the user allow-list, then the tool
\* allow-list, then the rate limit: it fails with "User not allowed" exactly when
\* the user list denies the user, whatever the tool and the limiter; otherwise with
\* "Tool not allowed" exactly when the tool list denies the tool; otherwise its
\* result is the rate limiter's. An empty allow-list never denies.
C14_UserThenToolThenLimit ==
    [][(last'.op = "check_access" /\ last'.credential_id \in DOMAIN policies) =>
         LET p          == policies[last'.credential_id]
             userDenied == Denies(p.allowed_users, last'.user)
             toolDenied == Denies(p.allowed_tools, last'.tool)
         IN  /\ (last'.ret = Err("User not allowed")) <=> userDenied
             /\ ~userDenied =>
                   ((last'.ret = Err("Tool not allowed")) <=> toolDenied)
             /\ (~userDenied /\ ~toolDenied) =>
                   last'.ret = LimiterAnswer(p.rate_limiter, now)]_vars

\* C14 witness: a call refused for its user although the tool list denies its tool
\* and the limiter (max_requests = 0) would refuse as well.
C14_Witness ==
    /\ last.op = "check_access"
    /\ last.credential_id \in DOMAIN policies
    /\ last.ret = Err("User not allowed")
    /\ Denies(policies[last.credential_id].allowed_tools, last.tool)
    /\ policies[last.credential_id].rate_limiter.max_requests = 0

\* C15: every check_access of a policy appends exactly one event at the end of
\* the access log, carrying the call's user and action and the policy's
\* credential_id, with status Allowed exactly when the call returns Ok, Denied on
\* a user or tool refusal and RateLimited on a limiter refusal; the events already
\* in the log stay as they are, and the log is as long as the number of
\* check_access calls made on the policy.
C15_OneEventPerCall ==
    [][/\ (last'.op = "check_access" /\ last'.credential_id \in DOMAIN policies) =>
            LET old == policies[last'.credential_id]
                new == policies'[last'.credential_id]
                ev  == new.access_log[Len(new.access_log)]
            IN  /\ Len(new.access_log) = Len(old.access_log) + 1
                /\ SubSeq(new.access_log, 1, Len(old.access_log)) = old.access_log
                /\ ev.user = last'.user
                /\ ev.action = last'.action
                /\ ev.credential_id = old.credential_id
                /\ (ev.status = "Allowed") <=> last'.ret.ok
                /\ last'.ret \in {Err("User not allowed"), Err("Tool not allowed")} =>
                      ev.status = "Denied"
                /\ last'.ret = Err("Rate limit exceeded") => ev.status = "RateLimited"
                /\ Len(new.access_log) = calls'[last'.credential_id]
       /\ last'.op \notin {"check_access", "create_policy"} =>
            \A c \in DOMAIN policies :
                /\ c \in DOMAIN policies'
                /\ policies'[c].access_log = policies[c].access_log]_vars

\* C15 witness: a log of an allowed call followed by a rate-limited one.
C15_Witness ==
    /\ last.op = "check_access"
    /\ last.credential_id \in DOMAIN policies
    /\ LET log == policies[last.credential_id].access_log
       IN  /\ Len(log) = 2
           /\ log[1].status = "Allowed"
           /\ log[2].status = "RateLimited"
           /\ log[1].user # log[2].user

\* C16: the manager's check_access(credential_id, ...) answers what the policy
\* stored under credential_id answers and leaves that policy as the policy's
\* check_access leaves it; when there is none it fails with "Policy not found",
\* appends no event and changes no policy; a check on one credential never
\* changes the policy (log, limiter) of another credential.
C16_DelegatesToOwnPolicy ==
    [][last'.op = "check_access" =>
         LET c == last'.credential_id
         IN  /\ DOMAIN policies' = DOMAIN policies
             /\ \A d \in DOMAIN policies \ {c} : policies'[d] = policies[d]
             /\ c \notin DOMAIN policies =>
                   /\ last'.ret = Err("Policy not found")
                   /\ policies' = policies
             /\ c \in DOMAIN policies =>
                   LET r == policy_check_access(policies[c], last'.user, last'.tool,
                                                last'.action, now)
                   IN  /\ last'.ret = r.ret
                       /\ policies'[c] = r.policy]_vars

\* C16 witness: a check on a credential without a policy, while another
\* credential's policy holds a logged event.
C16_Witness ==
    /\ last.op = "check_access"
    /\ last.ret = Err("Policy not found")
    /\ \E d \in DOMAIN policies : policies[d].access_log # <<>>

----------------------------------------------------------------------------
(* Properties of the CommandValidator *)

\* The first whitespace-delimited token of cmd, empty when there is none.
HeadToken(cmd) ==
    LET solid == {i \in DOMAIN cmd : cmd[i] \notin Whitespace}
    IN  IF solid = {} THEN <<>>
        ELSE LET a == CHOOSE i \in solid : \A k \in solid : i <= k
                 b == CHOOSE j \in a..Len(cmd) :
                         /\ \A k \in a..j : cmd[k] \notin Whitespace
                         /\ j = Len(cmd) \/ cmd[j + 1] \in Whitespace
             IN  SubSeq(cmd, a, b)

\* cmd holds the character open, then blanks only, then the literal lit.
HasRedirect(cmd, open, lit) ==
    \E i \in DOMAIN cmd, j \in DOMAIN cmd :
        /\ i < j
        /\ cmd[i] = open
        /\ \A k \in (i + 1)..(j - 1) : cmd[k] \in Whitespace
        /\ j + Len(lit) - 1 <= Len(cmd)
        /\ SubSeq(cmd, j, j + Len(lit) - 1) = lit

HasShellMeta(cmd) ==
    \E i \in DOMAIN cmd : cmd[i] \in {";", "&", "|", Backquote, "$", "(", ")"}

\* cmd matches one of the three injection patterns.
HasInjection(cmd) ==
    \/ HasShellMeta(cmd)
    \/ HasRedirect(cmd, ">", <<"/", "d", "e", "v", "/">>)
    \/ HasRedirect(cmd, "<", <<"(">>)

\* C17: for every command whose first token is in the deny-list (rm, dd, mkfs,
\* fdisk, shutdown, reboot), validate returns is_valid = false with
\* requires_judgment = false, whatever the injection patterns match and whatever
\* the allow-list holds, the same head included.
C17_DenyListRejects ==
    (last.op = "validate" /\ HeadToken(last.command) \in blacklist) =>
        /\ last.ret.is_valid = FALSE
        /\ last.ret.requires_judgment = FALSE

\* C17 witness: "rm" with an injection match, while "rm" is allow-listed.
C17_Witness ==
    /\ last.op = "validate"
    /\ HeadToken(last.command) = <<"r", "m">>
    /\ HasInjection(last.command)
    /\ <<"r", "m">> \in whitelist
    /\ ~last.ret.is_valid

\* C18: for a command whose first token is not in the deny-list, validate
\* returns is_valid = true, and requires_judgment = true exactly when the command
\* matches an injection pattern or the allow-list is non-empty and lacks the
\* first token; an allow-listed head does not suppress judgment on a match.
C18_JudgmentIffInjectionOrUnlisted ==
    (last.op = "validate" /\ HeadToken(last.command) \notin blacklist) =>
        /\ last.ret.is_valid = TRUE
        /\ last.ret.requires_judgment <=>
              \/ HasInjection(last.command)
              \/ whitelist # {} /\ HeadToken(last.command) \notin whitelist

\* C18 witness: an allow-listed head with a redirect to /dev/ and no shell
\* metacharacter forces judgment.
C18_Witness ==
    /\ last.op = "validate"
    /\ HeadToken(last.command) = <<"l", "s">>
    /\ <<"l", "s">> \in whitelist
    /\ ~HasShellMeta(last.command)
    /\ HasInjection(last.command)
    /\ last.ret.is_valid /\ last.ret.requires_judgment

----------------------------------------------------------------------------
(* Properties of the JudgmentCache *)

\* C19: in every state reached through JudgmentCache::new(max_size), store and
\* clear, for every max_size including 0, the cache holds at most max_size
\* entries.
C19_SizeWithinMax == Cardinality(DOMAIN cache) <= cache_max_size

\* The key of c stored earliest, by the order of the stores.
EarliestStored(c, log) ==
    CHOOSE k \in DOMAIN c :
        \E i \in DOMAIN log :
            /\ log[i] = k
            /\ \A j \in 1..(i - 1) : log[j] \notin DOMAIN c

\* C20: store of a new fingerprint on a cache holding max_size entries removes
\* the entry with the smallest cached_at, the one stored earliest; with capacity
\* 2, storing hash0, hash1, hash2 leaves two entries and get(hash0) is none, also
\* when the stores happen at the same clock instant.
C20_EvictsEarliestStored ==
    [][last'.op = "store" =>
         /\ ( /\ cache_max_size > 0
              /\ Cardinality(DOMAIN cache) = cache_max_size
              /\ last'.input_hash \notin DOMAIN cache ) =>
                 LET k == EarliestStored(cache, storeLog)
                 IN  /\ \A j \in DOMAIN cache : cache[k].cached_at <= cache[j].cached_at
                     /\ DOMAIN cache' = (DOMAIN cache \ {k}) \cup {last'.input_hash}
         /\ ( /\ cache_max_size = 2
              /\ storeLog' = <<"hash0", "hash1", "hash2">> ) =>
                 /\ Cardinality(DOMAIN cache') = 2
                 /\ get(cache', "hash0", now) = Nothing]_vars

\* C21: get(fingerprint) at time now returns the stored judgment exactly when
\* an entry exists for the fingerprint and now - cached_at < ttl, and none
\* otherwise (elapsed >= ttl, ttl = 0 included); get never changes the cache, so
\* an expired entry stays in the map and keeps counting toward the size.
C21_GetHitsIffFresh ==
    [][last'.op = "get" =>
         LET h     == last'.input_hash
             fresh == /\ h \in DOMAIN cache
                      /\ now - cache[h].cached_at < cache[h].ttl
         IN  /\ cache' = cache
             /\ fresh => last'.ret = Some(cache[h].judgment)
             /\ ~fresh => last'.ret = Nothing]_vars

\* C21 witness: a get that misses on an entry whose age equals its ttl of a
\* minute, the entry still filling the cache.
C21_Witness ==
    /\ last.op = "get"
    /\ last.ret = Nothing
    /\ last.input_hash \in DOMAIN cache
    /\ cache[last.input_hash].ttl = 60
    /\ now - cache[last.input_hash].cached_at = 60
    /\ Cardinality(DOMAIN cache) = cache_max_size

----------------------------------------------------------------------------
(* Properties of the JudgmentPolicy and of judge_input *)

\* The action the policy p holds for the category c.
ActionOf(p, c) ==
    IF c = "Safe" THEN p.safe_action
    ELSE IF c = "Suspicious" THEN p.suspicious_action
    ELSE IF c = "Dangerous" THEN p.dangerous_action
    ELSE p.unknown_action

\* C22: a new JudgmentPolicy maps Safe to Allow, Suspicious to
\* RequireConfirmation, Dangerous to Deny and Unknown to RequireConfirmation;
\* after set_action(c, a), get_action(c) returns a and get_action of every other
\* category is unchanged.
C22_DefaultsAndSetAction ==
    /\ get_action(judgment_policy, "Safe") = "Allow"
    /\ get_action(judgment_policy, "Suspicious") = "RequireConfirmation"
    /\ get_action(judgment_policy, "Dangerous") = "Deny"
    /\ get_action(judgment_policy, "Unknown") = "RequireConfirmation"
    /\ [][/\ last'.op = "set_action" =>
               /\ ActionOf(judgment_policy', last'.category) = last'.action
               /\ \A c \in JudgmentCategories \ {last'.category} :
                     ActionOf(judgment_policy', c) = ActionOf(judgment_policy, c)
          /\ last'.op = "get_action" =>
               /\ last'.ret = ActionOf(judgment_policy, last'.category)
               /\ judgment_policy' = judgment_policy]_vars

\* C22 witness: Safe set to Deny while an earlier change of Dangerous stands.
C22_Witness ==
    /\ last.op = "set_action"
    /\ last.category = "Safe"
    /\ last.action = "Deny"
    /\ judgment_policy.safe_action = "Deny"
    /\ judgment_policy.dangerous_action = "Allow"

\* The exchange yields no JSON value to build a judgment from.
ExchangeFailed(e) ==
    \/ e.kind \in {"send_error", "body_error"}
    \/ e.kind = "body" /\ e.response.t # "text"

\* C23: judge_input returns an error, and never a Judgment with defaults,
\* whenever the request fails or times out, the body is not JSON, the "response"
\* member is missing or its string is not JSON; on a parseable response it maps
\* the categories Safe, Suspicious, Dangerous to themselves and any other or
\* missing category to Unknown, and confidence is 50 when absent.
C23_ErrorsOrMappedJudgment ==
    last.op = "judge_input" =>
        LET e == last.exchange
        IN  /\ ExchangeFailed(e) => ~last.ret.ok
            /\ ~ExchangeFailed(e) =>
                 LET j     == e.response.json
                     named == /\ j.t = "obj"
                              /\ j.category.t = "str"
                              /\ j.category.s \in {"Safe", "Suspicious", "Dangerous"}
                 IN  /\ last.ret.ok
                     /\ named => last.ret.val.category = j.category.s
                     /\ ~named => last.ret.val.category = "Unknown"
                     /\ (j.t # "obj" \/ j.confidence = Absent) =>
                           last.ret.val.confidence = 50

\* C23 witness: a parsed response with an unrecognised category and no
\* confidence gives Unknown with confidence 50.
C23_Witness ==
    /\ last.op = "judge_input"
    /\ last.exchange.kind = "body"
    /\ last.exchange.response.t = "text"
    /\ last.exchange.response.json.t = "obj"
    /\ last.exchange.response.json.category = JsonStr("safe")
    /\ last.exchange.response.json.confidence = Absent
    /\ last.ret = Ok([category |-> "Unknown", confidence |-> 50,
                      reasoning |-> "ok"])

----------------------------------------------------------------------------
(* Properties of the SandboxMonitor *)

\* C24: in every state reached through SandboxMonitor::new(max_violations),
\* record_violation, the two detectors and clear_violations, for every
\* max_violations including 0, at most max_violations violations are stored.
C24_ViolationsWithinMax == Len(violations) <= max_violations

\* The last k elements of the sequence q (all of q when it is shorter).
LastOf(q, k) == SubSeq(q, IF Len(q) <= k THEN 1 ELSE Len(q) - k + 1, Len(q))

\* C25: with max_violations >= 1, after n recordings since creation or the last
\* clear, the monitor holds, and get_violations returns, the most recent
\* min(n, max_violations) violations in the order they were recorded: on
\* overflow exactly the oldest entry is dropped.
C25_KeepsMostRecentInOrder ==
    max_violations >= 1 =>
        /\ violations = LastOf(recorded, max_violations)
        /\ last.op = "get_violations" => last.ret = LastOf(recorded, max_violations)

\* C25 witness: three recordings into a monitor of capacity 2, the first one
\* different from the two that get_violations returns.
C25_Witness ==
    /\ last.op = "get_violations"
    /\ max_violations = 2
    /\ Len(recorded) = 3
    /\ recorded[1] \notin {recorded[2], recorded[3]}
    /\ last.ret = <<recorded[2], recorded[3]>>

\* The text holds the literal lit somewhere.
HasText(text, lit) ==
    \E i \in 0..Len(text), j \in 0..Len(text) : SubSeq(text, i + 1, j) = lit

\* This step stored exactly one violation, of the given type, at the end of
\* the buffer, in front of it the former buffer or the former buffer without
\* its oldest entry.
StoredOne(violation_type) ==
    /\ violations' # <<>>
    /\ violations'[Len(violations')].violation_type = violation_type
    /\ recorded' = Append(recorded, violations'[Len(violations')])
    /\ LET front == SubSeq(violations', 1, Len(violations') - 1)
       IN  \/ front = violations
           \/ violations # <<>> /\ front = Tail(violations)

\* C26: detect_privilege_escalation (the input contains "sudo" or "su ") and
\* detect_symlink_escape (the input contains "..") each record exactly one
\* violation of the matching type and return true on a positive detection, and
\* return false leaving the buffer unchanged on a negative one.
C26_DetectorsRecordOnPositive ==
    [][/\ last'.op = "detect_privilege_escalation" =>
            LET positive == \/ HasText(last'.input, <<"s", "u", "d", "o">>)
                            \/ HasText(last'.input, <<"s", "u", " ">>)
            IN  /\ last'.ret = positive
                /\ positive => StoredOne("PrivilegeEscalation")
                /\ ~positive => violations' = violations
       /\ last'.op = "detect_symlink_escape" =>
            LET positive == HasText(last'.input, <<".", ".">>)
            IN  /\ last'.ret = positive
                /\ positive => StoredOne("SymlinkEscape")
                /\ ~positive => violations' = violations]_vars

\* C26 witness: "su root" detected and stored as a privilege escalation.
C26_Witness ==
    /\ last.op = "detect_privilege_escalation"
    /\ last.input = <<"s", "u", " ", "r", "o", "o", "t">>
    /\ last.ret = TRUE
    /\ violations # <<>>
    /\ violations[Len(violations)].violation_type = "PrivilegeEscalation"

----------------------------------------------------------------------------
(* Properties of the TokenStore *)

\* C27: once revoke(id) has been called, validate(id) fails in every later
\* state, whatever stores (of a token with the same id too), validations,
\* revocations and cleanups follow.
C27_RevokedNeverValidates ==
    (last.op = "validate" /\ last.token_id \in revoke_called) => ~last.ret.ok

\* C27 witness: a validation refused as revoked although a token with the same
\* id was stored again and has not expired.
C27_Witness ==
    /\ last.op = "validate"
    /\ last.ret = Err("Token revoked")
    /\ last.token_id \in revoke_called
    /\ last.token_id \in DOMAIN tokens
    /\ tokens[last.token_id].expires_at > now

\* C28: validate(id) at time now succeeds exactly when id is not revoked, is
\* stored, and its expires_at is not earlier than now; on success the stored
\* token's last_used becomes now; on any failure (revoked, not found, expired)
\* the token table and the revoked set are unchanged.
C28_ValidateIffLive ==
    [][last'.op = "validate" =>
         LET id   == last'.token_id
             live == /\ id \notin revoked_tokens
                     /\ id \in DOMAIN tokens
                     /\ tokens[id].expires_at >= now
         IN  /\ last'.ret.ok <=> live
             /\ revoked_tokens' = revoked_tokens
             /\ live => /\ DOMAIN tokens' = DOMAIN tokens
                        /\ tokens'[id].last_used = now
                        /\ tokens'[id].expires_at = tokens[id].expires_at
                        /\ tokens'[id].user_id = tokens[id].user_id
                        /\ \A other \in DOMAIN tokens \ {id} :
                              tokens'[other] = tokens[other]
             /\ ~live => tokens' = tokens]_vars

\* C28 witness: a token validated at the very instant it expires, after it
\* was last used earlier.
C28_Witness ==
    /\ last.op = "validate"
    /\ last.ret.ok
    /\ last.token_id \in DOMAIN tokens
    /\ tokens[last.token_id].expires_at = now
    /\ tokens[last.token_id].last_used = now
    /\ last.ret.val.last_used < now

----------------------------------------------------------------------------
(* Properties of the ConfigValidator *)

\* C29: the configuration gates accept exactly: encryption enabled = true; key
\* rotation interval in [30, 365] days; rate limit in (0, 10000]; TLS enabled =
\* true; token expiration in [1, 720] hours; every other value, the neighbours
\* 29, 366, 0, 10001, 0 h and 721 h included, is rejected with an error.
C29_GatesAcceptExactlyTheRanges ==
    /\ last.op = "validate_encryption_enabled" => (last.ret.ok <=> last.arg = TRUE)
    /\ last.op = "validate_key_rotation_interval" =>
          (last.ret.ok <=> (30 <= last.arg /\ last.arg <= 365))
    /\ last.op = "validate_rate_limit" =>
          (last.ret.ok <=> (0 < last.arg /\ last.arg <= 10000))
    /\ last.op = "validate_tls_enabled" => (last.ret.ok <=> last.arg = TRUE)
    /\ last.op = "validate_token_expiration" =>
          (last.ret.ok <=> (1 <= last.arg /\ last.arg <= 720))

\* C29 witness: the lowest accepted rotation interval, 30 days.
C29_Witness ==
    /\ last.op = "validate_key_rotation_interval"
    /\ last.arg = 30
    /\ last.ret = Ok(Unit)

----------------------------------------------------------------------------
(* Life cycle of a key version *)

\* C30: the status of a key version only moves forward along Active ->
\* Rotating -> removed: rotate_key turns the current Active version into
\* Rotating, a Rotating version never becomes Active again, a removed version
\* number is never created again, and every version in the store other than
\* the current one is Rotating (Retired is never assigned).
C30_StatusMovesForward ==
    [][/\ \A v \in DOMAIN keys \cap DOMAIN keys' :
            /\ keys[v].status = "Rotating" => keys'[v].status = "Rotating"
            /\ keys[v].status = "Active" => keys'[v].status \in {"Active", "Rotating"}
       /\ (last'.op = "rotate_key" /\ current_version \in DOMAIN keys) =>
            /\ keys[current_version].status = "Active"
            /\ keys'[current_version].status = "Rotating"
       /\ DOMAIN keys' \subseteq 1..current_version'
       /\ \A v \in (1..current_version) \ DOMAIN keys : v \notin DOMAIN keys'
       /\ \A v \in DOMAIN keys' \ {current_version'} : keys'[v].status = "Rotating"
       /\ \A v \in DOMAIN keys' : keys'[v].status # "Retired"]_vars

\* C30 witness: version 1 removed, version 2 rotated out by the rotation to 3.
C30_Witness ==
    /\ last.op = "rotate_key"
    /\ current_version = 3
    /\ DOMAIN keys = {2, 3}
    /\ keys[2].status = "Rotating"
    /\ keys[3].status = "Active"

----------------------------------------------------------------------------
(* The rotation history *)

\* C31: rotation_history is append-only: log_rotation(old, new, n) appends
\* exactly one event with those fields and status "completed" at the end and
\* leaves the earlier events and the key map unchanged; rotate_key,
\* retire_old_keys and the key lookups never change the history.
C31_HistoryAppendOnly ==
    [][/\ last'.op = "log_rotation" =>
            /\ rotation_history' =
                 Append(rotation_history,
                        [old_version |-> last'.old_version,
                         new_version |-> last'.new_version,
                         credentials_migrated |-> last'.migrated,
                         status |-> "completed"])
            /\ keys' = keys
            /\ current_version' = current_version
       /\ last'.op \in {"rotate_key", "retire_old_keys", "get_current_key",
                        "get_key_by_version"} =>
            rotation_history' = rotation_history]_vars

\* C31 witness: a second, different event logged behind the first one, after
\* a rotation and a retirement that left the first event in place.
C31_Witness ==
    /\ last.op = "log_rotation"
    /\ Len(rotation_history) = 2
    /\ rotation_history[1] # rotation_history[2]
    /\ current_version = 2
    /\ DOMAIN keys = {2}

----------------------------------------------------------------------------
(* Wiping of plaintext *)

----------------------------------------------------------------------------
(* Order of the limiter's queue *)

\* C33 as stated: the limiter's queue is strictly chronologically ordered from
\* front to back, each timestamp strictly later than the one before it, also
\* when two checks are accepted at the same clock instant.
C33_QueueStrictlyOrdered ==
    \A i, j \in DOMAIN limiter.requests :
        i < j => limiter.requests[i] < limiter.requests[j]

\* C33: after any sequence of check_limit calls at non-decreasing times the
\* limiter's queue is chronologically ordered from front to back, each
\* timestamp no earlier than the one before it; two checks accepted at the
\* same clock instant leave two equal timestamps next to each other.
C33_QueueNonDecreasing ==
    /\ \A i, j \in DOMAIN limiter.requests :
           i < j => limiter.requests[i] <= limiter.requests[j]
    /\ (last.op = "check_limit" /\ last.ret.ok) =>
           limiter.requests[Len(limiter.requests)] = last.at

\* C33 witness: two checks accepted at the same instant and one accepted
\* later are queued in that order.
C33_Witness ==
    /\ last.op = "check_limit"
    /\ last.ret.ok
    /\ Len(limiter.requests) = 3
    /\ limiter.requests[1] = limiter.requests[2]
    /\ limiter.requests[2] < limiter.requests[3]

----------------------------------------------------------------------------
(* Refused calls and the limiter *)

\* C34: a check_access call refused by the user or the tool allow-list leaves
\* the policy's rate limiter unchanged (no timestamp recorded, none pruned), so
\* refused calls never use up the allowance of later authorised calls; only a
\* call that passes both allow-lists reaches the limiter.
C34_RefusedCallsSpareLimiter ==
    [][(last'.op = "check_access" /\ last'.credential_id \in DOMAIN policies) =>
         LET p == policies[last'.credential_id]
             q == policies'[last'.credential_id]
         IN  /\ last'.ret \in {Err("User not allowed"), Err("Tool not allowed")} =>
                    q.rate_limiter = p.rate_limiter
             /\ q.rate_limiter # p.rate_limiter =>
                    /\ ~Denies(p.allowed_users, last'.user)
                    /\ ~Denies(p.allowed_tools, last'.tool)
             /\ last'.ret \in {Ok(Unit), Err("Rate limit exceeded")} =>
                    /\ ~Denies(p.allowed_users, last'.user)
                    /\ ~Denies(p.allowed_tools, last'.tool)
                    /\ \A i \in DOMAIN q.rate_limiter.requests :
                           q.rate_limiter.requests[i] >= now - WindowSize]_vars

\* C34 witness: a call refused for its user more than a window after the one
\* accepted call; the limiter still holds the old timestamp, which a call
\* reaching the limiter would have pruned.
C34_Witness ==
    /\ last.op = "check_access"
    /\ last.credential_id \in DOMAIN policies
    /\ last.ret = Err("User not allowed")
    /\ policies[last.credential_id].rate_limiter.requests = <<0>>
    /\ now > WindowSize

----------------------------------------------------------------------------
(* Range of the confidence *)

\* C35: every Judgment returned by judge_input has a confidence in 0..=100,
\* for every numeric confidence the classifier response may carry, values
\* above 100 and above 255 (which are cast to u8) included.
C35_ConfidenceWithin100 ==
    (last.op = "judge_input" /\ last.ret.ok) =>
        last.ret.val.confidence \in 0..100

----------------------------------------------------------------------------
(* Storing a fingerprint again *)

\* C36: store on a fingerprint that is already cached replaces that entry
\* (new judgment, cached_at and ttl) without evicting any other entry, so the
\* cache size is unchanged, also when the cache is at capacity.
C36_RestoreReplacesInPlace ==
    [][(last'.op = "store" /\ last'.input_hash \in DOMAIN cache) =>
         /\ DOMAIN cache' = DOMAIN cache
         /\ cache'[last'.input_hash] =
                CachedJudgment(last'.judgment, now, last'.ttl)
         /\ \A k \in DOMAIN cache \ {last'.input_hash} : cache'[k] = cache[k]]_vars

----------------------------------------------------------------------------
(* Cleaning up expired tokens *)

\* C37: cleanup_expired at time now removes only the tokens validate would
\* reject as expired at that time (expires_at earlier than now) and returns
\* the number removed: a token with expires_at equal to now, which validate
\* still accepts, is not removed; revoked ids stay revoked and the tokens left
\* are unchanged.
C37_CleanupRemovesOnlyExpired ==
    [][last'.op = "cleanup_expired" =>
         /\ DOMAIN tokens' = {id \in DOMAIN tokens : ~(tokens[id].expires_at < now)}
         /\ \A id \in DOMAIN tokens' : tokens'[id] = tokens[id]
         /\ last'.ret = Cardinality(DOMAIN tokens) - Cardinality(DOMAIN tokens')
         /\ revoked_tokens' = revoked_tokens]_vars

----------------------------------------------------------------------------
(* The audit log and its file *)

\* The complete lines of a text: the token runs that end in a newline.
RECURSIVE split_lines(_, _)
split_lines(text, current) ==
    IF text = <<>> THEN <<>>
    ELSE IF Head(text) = "\n"
         THEN <<current>> \o split_lines(Tail(text), <<>>)
         ELSE split_lines(Tail(text), Append(current, Head(text)))

\* C38: log_command adds the entry to the in-memory list only after its line
\* was appended to the file: on an open or write error it returns the error and
\* leaves the list unchanged, so as long as clear() was not called the in-memory
\* entries correspond one-to-one, in order, to the lines appended to the file;
\* get_entries_for_user returns exactly the entries of that user, in that order.
C38_EntriesMatchAppendedLines ==
    [][/\ last'.op = "log_command" =>
            /\ last'.ret.ok => entries' = Append(entries, last'.entry)
            /\ ~last'.ret.ok => entries' = entries
       /\ last'.op = "get_entries_for_user" =>
            /\ last'.ret = SelectSeq(entries, LAMBDA e : e.user = last'.user)
            /\ entries' = entries
       /\ ~entries_cleared' =>
            split_lines(log_file', <<>>) =
                [i \in DOMAIN entries' |-> to_string(entries'[i])]]_vars

====
